---------------------------- MODULE Spec2Model ----------------------------
(***************************************************************************)
(* Model of the voice assistant's speech-capture and recognition core:     *)
(*   voice_assistant/core/assistant.py      (VoiceAssistant)               *)
(*   voice_assistant/speech/stt/base_stt.py (BaseSTT)                      *)
(*                                                                         *)
(* Every thread of the program is a process of the model; the position of  *)
(* a thread inside its loop is a pc_* variable.  A handler is cut into     *)
(* steps at the places where the interpreter hands the processor to        *)
(* another thread between a read and a later write of shared state: a      *)
(* print, a blocking queue operation, a network call, a sleep.             *)
(*                                                                         *)
(* Time is in whole seconds.  Ratios are kept exact as <<num, den>>.       *)
(***************************************************************************)
EXTENDS Integers, Sequences, FiniteSets, TLC

(***************************************************************************)
(* Program constants                                                       *)
(***************************************************************************)
\* VoiceAssistant.__init__: self.warm_up_period = 30
warm_up_period == 30
\* silence_monitor: silence_threshold = 3.0 (the local the loop compares with)
silence_threshold_local == 3
\* ASSISTANT_SETTINGS["silence_threshold_seconds"] = 5.0, the default of
\* VoiceAssistant(silence_threshold=...), kept in self.silence_threshold
silence_threshold_seconds == 5
\* STT_SETTINGS["silence_threshold"] = 0.9, in tenths
silence_threshold_tenths == 9
\* silence_monitor: speech_state['silence_ratio'] < 0.7, in tenths
resume_ratio_tenths == 7
\* process_audio: reset the counters when total_frames > 100
window_frames == 100
\* BaseSTT.__init__: self.recognizer.energy_threshold = 300
fixed_energy_threshold == 300
\* active_listening_loop: max_consecutive_errors = 3
max_consecutive_errors == 3
\* VoiceAssistant.__init__: self.max_history_items = 10
max_history_items == 10
\* BaseSTT.start: for _ in range(3), the recognize_worker threads
num_workers == 3
\* VoiceAssistant.__init__: self.context_window_minutes = 15
context_window_minutes == 15
\* EdgeTTSGenerator.__init__: self.duplicate_threshold = 2.0 (seconds)
duplicate_threshold == 2

(***************************************************************************)
(* Bounds of the model                                                     *)
(***************************************************************************)
\* seconds of wall-clock time a run of Spec covers
MaxTime == 4
\* seconds of wall-clock time a run of InputSpec covers
MaxInputTime == 1
\* audio segments the background listener captures in a run
MaxSegments == 1
\* recognition results the recognition threads deliver in a run
MaxResults == 2
\* lines typed on the keyboard in a run
MaxTyped == 1
\* iterations of active_listening_loop
MaxListens == 5
\* segments captured while the recognize_worker threads are watched
MaxWorkerSegments == 2
\* calls of generate_and_play_speech while the generator is watched
MaxSpeeches == 3
\* calls of add_to_conversation_history while the history is watched
MaxAppends == 23
\* the last second of a run that waits out the context window
MaxWait == 1802
\* segments the background listener captures while the window is watched
MaxFrames == 102
\* devices the sound driver lists
MaxDevices == 8

(***************************************************************************)
(* Input domains                                                           *)
(***************************************************************************)
\* RMS energies of a captured segment, either side of energy_threshold * 0.8
Energies == {240, 241}
\* texts a final recognition can return (" " passes `if text:` in the active
\* loop and is dropped by stt_processor's strip())
FinalTexts == {"hello", " "}
\* best guesses of the quick recognition in audio_callback
PartialTexts == {"he", "hello"}
\* lines input() can return
TypedTexts == {"hi", "exit mode", ""}
\* languages of SUPPORTED_LANGUAGES that the runs use, in dictionary order
Langs == <<"en-US", "fr-FR", "es-ES">>
LangSet == {Langs[i] : i \in 1..Len(Langs)}
\* replies of the response collaborator; NoReply is a None or empty reply,
\* Raised an exception out of generate_response
NoReply == "<none>"
Raised == "<raised>"
Replies == {"reply", NoReply, Raised}

\* outcomes of a recognize_google call besides a text
UnknownValue == "<UnknownValueError>"
RequestError == "<RequestError>"
\* what a recognition call can return or raise
RecognitionOutcomes == {"hello", "", UnknownValue, RequestError}
\* an exception of a recognize_google call that is neither of the two
OtherError == "<other exception>"
\* what langdetect's detect(text) can return or do: a code of
\* SUPPORTED_LANGUAGES, a code that is not one, an exception
DetectFailed == "<LangDetectException>"
DetectOutcomes == {"en", "fr", "es", "pt", DetectFailed}
Workers == 1..num_workers
\* how recognizer.listen under `with microphone as source` can end
ListenOutcomes ==
    {"heard", "timeout", "listen_error", "source_error", "loop_error"}
\* what recognize_sphinx can return or do
SphinxFailed == "<sphinx error>"
SphinxOutcomes == {"hello", SphinxFailed}

None == "<None>"
\* sr.Microphone.list_microphone_names() has not been called yet
Unlisted == "<unlisted>"
\* the None that stands where a device index can stand
NoDevice == -1
\* the value of a thread local that holds nothing
NoSpeechState == [silence_ratio |-> <<0, 1>>, is_silent |-> FALSE,
                  last_speech_time |-> 0, silence_duration |-> 0]
NoResult == [text |-> "", lang |-> "", timestamp |-> 0]

VARIABLES
    \* ---- wall clock
    now,
    \* ---- VoiceAssistant
    text_queue, is_listening, is_speaking, start_time,
    silence_detection_enabled, current_language, last_full_result,
    showing_partial, conversation_history, current_mode,
    \* ---- BaseSTT
    result_queue, partial_result_queue, audio_queue, last_speech_time,
    silence_frames, speech_frames, total_frames, silence_ratio,
    energy_threshold, last_detected_language,
    \* ---- thread positions and locals
    pc_mon, speech_state,
    pc_stt, stt_result,
    pc_ptm, ptm_text,
    pc_ptq, ptq_text, ptq_response,
    \* ---- recognize_worker threads: position, the segment held, the language
    \* of the recognition call in flight, the text and the detected language
    \* kept for the second call, the place in supported_languages
    w_pc, w_audio, w_lang, w_text, w_detected, w_index,
    \* ---- every audio_queue.get() that has returned, in order:
    \* [worker, segment]
    taken,
    \* ---- the shutdown flags VoiceAssistant.stop_threads and
    \* BaseSTT.stop_thread, and whether the background listener started by
    \* listen_in_background is running
    stop_threads, stop_thread, background_listening,
    \* ---- active_listening_loop: position, its locals consecutive_errors,
    \* recognizer and microphone (TRUE when the object exists), the hint of the
    \* recognition call in flight
    pc_al, consecutive_errors, recognizer, microphone, al_lang,
    \* ---- the iterations of active_listening_loop so far, and what it has
    \* printed: "heard", "timeout", "error", "recognized", "unrecognized",
    \* "request_error", "reset"
    listens, al_log,
    \* ---- what the environment has supplied so far
    captured, delivered, typed,
    \* ---- the "You:" lines stt_processor has printed, one per text it put on
    \* text_queue: [text, lang, timestamp]
    utterances,
    \* ---- EdgeTTSGenerator: last_message, last_message_time, and the calls
    \* of generate_and_play_speech so far: [text, time, synthesized]
    last_message, last_message_time, tts_log,
    \* ---- process_text_queue: the context it last passed to
    \* generate_response, a sequence of [role, content]
    context,
    \* ---- the perform_adjustment thread of BaseSTT.adjust_for_ambient_noise:
    \* "measure" (line 137 is running), "floor" (before line 139), "ceiling"
    \* (before line 141), "done"
    pc_adj,
    \* ---- the line the assistant printed last for the user's speech:
    \* [kind, text] with kind "partial" (partial_text_monitor), "final"
    \* (stt_processor) or "none"
    last_shown,
    \* ---- partial_result_processor: its local last_partial
    last_partial,
    \* ---- the microphones: the names sr.Microphone.list_microphone_names()
    \* returns, whether BaseSTT.start has listed them ("listed", "error" when
    \* the listing raised), and start's best_mic_index
    mic_names, mic_listing, best_mic_index

assistant_vars == <<text_queue, is_listening, is_speaking, start_time,
                    silence_detection_enabled, current_language,
                    last_full_result, showing_partial, conversation_history,
                    current_mode>>
stt_vars == <<result_queue, partial_result_queue, audio_queue,
              last_speech_time, silence_frames, speech_frames, total_frames,
              silence_ratio, energy_threshold, last_detected_language>>
worker_vars == <<w_pc, w_audio, w_lang, w_text, w_detected, w_index, taken>>
shutdown_vars == <<stop_threads, stop_thread, background_listening>>
active_vars == <<pc_al, consecutive_errors, recognizer, microphone, al_lang,
                 listens, al_log>>
thread_vars == <<pc_mon, speech_state, pc_stt, stt_result, pc_ptm, ptm_text,
                 pc_ptq, ptq_text, ptq_response, worker_vars, active_vars>>
env_vars == <<captured, delivered, typed>>
tts_vars == <<last_message, last_message_time, tts_log>>
display_vars == <<last_shown, last_partial>>
mic_vars == <<mic_names, mic_listing, best_mic_index>>
vars == <<now, assistant_vars, stt_vars, thread_vars, env_vars, utterances,
          shutdown_vars, tts_vars, context, pc_adj, display_vars, mic_vars>>


(***************************************************************************)
(* Pure helpers                                                            *)
(***************************************************************************)
\* str.strip() on the texts of the input domains
Strip(text) == IF text \in {"", " "} THEN "" ELSE text

\* lang.split('-')[0]
PrimaryCode(lang) ==
    CASE lang = "en-US" -> "en"
      [] lang = "fr-FR" -> "fr"
      [] lang = "es-ES" -> "es"
      [] OTHER -> lang

\* ratio > STT_SETTINGS["silence_threshold"], the ratio being <<num, den>>
IsSilent(ratio) == 10 * ratio[1] > silence_threshold_tenths * ratio[2]

\* speech_state['silence_ratio'] < 0.7
BelowResume(ratio) == 10 * ratio[1] < resume_ratio_tenths * ratio[2]

\* BaseSTT.get_speech_state (with get_silence_duration)
GetSpeechState ==
    [silence_ratio    |-> silence_ratio,
     is_silent        |-> IsSilent(silence_ratio),
     last_speech_time |-> last_speech_time,
     silence_duration |-> now - last_speech_time]

\* energy > self.recognizer.energy_threshold * 0.8
IsSpeechEnergy(energy) == 10 * energy > 8 * energy_threshold

\* the texts the three regular expressions of check_for_commands match
DocumentPhrases == {"open the document"}
ImagePhrases == {"look at the image"}
ExitPhrases == {"exit mode"}

\* VoiceAssistant.check_for_commands
check_for_commands(text) ==
    IF text \in DocumentPhrases THEN "document_mode"
    ELSE IF text \in ImagePhrases THEN "image_mode"
    ELSE IF text \in ExitPhrases THEN "exit_mode"
    ELSE None

\* a history that is cut to its oldest entries
add_to_conversation_history_oldest(history, role, text) ==
    LET h == Append(history, [role |-> role, text |-> text, timestamp |-> now])
    IN  IF Len(h) > max_history_items * 2
        THEN SubSeq(h, 1, max_history_items * 2)
        ELSE h

\* VoiceAssistant.add_to_conversation_history
add_to_conversation_history(history, role, text) ==
    LET h == Append(history, [role |-> role, text |-> text, timestamp |-> now])
    IN  IF Len(h) > max_history_items * 2
        THEN SubSeq(h, Len(h) - max_history_items * 2 + 1, Len(h))
        ELSE h

\* a context that is the whole history
get_conversation_context_all(history, current) ==
    [i \in 1..Len(history) |->
        [role |-> history[i].role, content |-> history[i].text]]

\* VoiceAssistant.get_conversation_context: the entries within the window
\* (lines 263-269), then their role and text (272-277)
get_conversation_context(history, current) ==
    LET recent(item) ==
            current - item.timestamp <= context_window_minutes * 60
        recent_history == SelectSeq(history, recent)
    IN  [i \in 1..Len(recent_history) |->
            [role |-> recent_history[i].role,
             content |-> recent_history[i].text]]

WelcomeText == "Welcome"
ExitReply == "Returning to general conversation mode."
FallbackNoReply == "I'm not sure how to respond to that."
FallbackRaised == "I'm having trouble processing that right now."

(***************************************************************************)
(* The state after VoiceAssistant(), stt.start() and the thread starts of  *)
(* run(): the welcome message is in the history and is being played.       *)
(***************************************************************************)
Init ==
    /\ now = 0
    /\ text_queue = <<>>
    /\ is_listening = TRUE
    /\ is_speaking = FALSE
    /\ start_time = 0
    /\ silence_detection_enabled = FALSE
    /\ current_language = "en"
    /\ last_full_result = ""
    /\ showing_partial = FALSE
    /\ conversation_history =
         <<[role |-> "assistant", text |-> WelcomeText, timestamp |-> 0]>>
    /\ current_mode = "general"
    /\ result_queue = <<>>
    /\ partial_result_queue = <<>>
    /\ audio_queue = <<>>
    /\ last_speech_time = 0
    /\ silence_frames = 0
    /\ speech_frames = 0
    /\ total_frames = 0
    /\ silence_ratio = <<1, 1>>
    /\ energy_threshold = fixed_energy_threshold
    /\ last_detected_language = "en-US"
    /\ pc_mon = "check"
    /\ speech_state = NoSpeechState
    /\ pc_stt = "take"
    /\ stt_result = NoResult
    /\ pc_ptm = "take"
    /\ ptm_text = None
    /\ pc_ptq = "welcome"
    /\ ptq_text = None
    /\ ptq_response = None
    /\ w_pc = [w \in Workers |-> "idle"]
    /\ w_audio = [w \in Workers |-> 0]
    /\ w_lang = [w \in Workers |-> None]
    /\ w_text = [w \in Workers |-> None]
    /\ w_detected = [w \in Workers |-> None]
    /\ w_index = [w \in Workers |-> 0]
    /\ taken = <<>>
    /\ stop_threads = FALSE
    /\ stop_thread = FALSE
    /\ background_listening = TRUE
    /\ last_message = ""
    /\ last_message_time = 0
    /\ tts_log = <<>>
    /\ context = <<>>
    /\ pc_adj = "measure"
    /\ last_shown = [kind |-> "none", text |-> ""]
    /\ last_partial = ""
    /\ mic_names = <<>>
    /\ mic_listing = Unlisted
    /\ best_mic_index = NoDevice
    /\ pc_al = "init"
    /\ consecutive_errors = 0
    /\ recognizer = FALSE
    /\ microphone = FALSE
    /\ al_lang = None
    /\ listens = 0
    /\ al_log = <<>>
    /\ captured = 0
    /\ delivered = 0
    /\ typed = 0
    /\ utterances = <<>>

(***************************************************************************)
(* The wall clock                                                          *)
(***************************************************************************)
Tick(limit) ==
    /\ now < limit
    /\ now' = now + 1
    /\ UNCHANGED <<assistant_vars, stt_vars, thread_vars, env_vars, utterances,
                   shutdown_vars, tts_vars, context, pc_adj, display_vars, mic_vars>>

(***************************************************************************)
(* The perform_adjustment thread of BaseSTT.adjust_for_ambient_noise.      *)
(* adjust_for_ambient_noise waits for it for 5 seconds at most (lines      *)
(* 154-157), then sets the threshold to 300 (164, 168) and start() goes on *)
(* to listen_in_background; the daemon thread may still be at line 137.    *)
(***************************************************************************)
\* what Recognizer.adjust_for_ambient_noise leaves in energy_threshold: the
\* level it measured, below or above the fixed threshold
AmbientLevels == {150, 400}

\* BaseSTT.__init__: self.min_energy_threshold = 300
min_energy_threshold == 300

Max(a, b) == IF a >= b THEN a ELSE b
Min(a, b) == IF a <= b THEN a ELSE b

adjust_unchanged ==
    UNCHANGED <<now, assistant_vars, result_queue, partial_result_queue,
                audio_queue, last_speech_time, silence_frames, speech_frames,
                total_frames, silence_ratio, last_detected_language,
                thread_vars, env_vars, utterances, shutdown_vars, tts_vars,
                context, display_vars, mic_vars>>

\* line 137: the library call returns, having written the measured level
perform_adjustment_measure(level) ==
    /\ pc_adj = "measure"
    /\ energy_threshold' = level
    /\ pc_adj' = "floor"
    /\ adjust_unchanged

\* line 139
perform_adjustment_floor ==
    /\ pc_adj = "floor"
    /\ energy_threshold' = Max(energy_threshold, min_energy_threshold)
    /\ pc_adj' = "ceiling"
    /\ adjust_unchanged

\* line 141
perform_adjustment_ceiling ==
    /\ pc_adj = "ceiling"
    /\ energy_threshold' = Min(energy_threshold, fixed_energy_threshold)
    /\ pc_adj' = "done"
    /\ adjust_unchanged

perform_adjustment ==
    \/ \E level \in AmbientLevels : perform_adjustment_measure(level)
    \/ perform_adjustment_floor
    \/ perform_adjustment_ceiling

(***************************************************************************)
(* BaseSTT.find_best_microphone.  A device name is the sequence of its     *)
(* characters; an index is Python's, counted from 0.                       *)
(***************************************************************************)
\* names list_microphone_names() can return
HeadsetMic == <<"H", "e", "a", "d", "s", "e", "t", " ", "M", "i", "c">>
Speakers == <<"S", "p", "e", "a", "k", "e", "r", "s">>
LineIn == <<"L", "i", "n", "e", " ", "I", "n">>
DeviceNames == {HeadsetMic, Speakers, LineIn}

\* for specific_index in [7, 14, 24, 25, 28]
specific_indices == <<7, 14, 24, 25, 28>>

priority_keywords ==
    << <<"h", "e", "a", "d", "s", "e", "t", " ", "m", "i", "c">>,
       <<"h", "e", "a", "d", "s", "e", "t", " ", "m",
         "i", "c", "r", "o", "p", "h", "o", "n", "e">>,
       <<"m", "i", "c", " ", "i", "n", "p", "u", "t">>,
       <<"m", "i", "c", "r", "o", "p", "h", "o",
         "n", "e", " ", "i", "n", "p", "u", "t">>,
       <<"m", "i", "c", "r", "o", "p", "h", "o", "n", "e", " ", "(">>,
       <<"m", "i", "c", " ", "(">>,
       <<"i", "n", "p", "u", "t">> >>

avoid_keywords ==
    << <<"o", "u", "t", "p", "u", "t">>,
       <<"s", "p", "e", "a", "k", "e", "r">>,
       <<"p", "l", "a", "y", "b", "a", "c", "k">>,
       <<"s", "o", "u", "n", "d", " ", "m", "a", "p", "p",
         "e", "r", " ", "-", " ", "o", "u", "t", "p", "u", "t">> >>

\* str.lower() on the characters of the device names
lower(name) ==
    [i \in 1..Len(name) |->
       CASE name[i] = "H" -> "h"
         [] name[i] = "M" -> "m"
         [] name[i] = "S" -> "s"
         [] name[i] = "L" -> "l"
         [] name[i] = "I" -> "i"
         [] OTHER -> name[i]]

\* keyword in name
contains(name, keyword) ==
    \E i \in 0..(Len(name) - Len(keyword)) :
       \A j \in 1..Len(keyword) : name[i + j] = keyword[j]

\* keyword.lower() in name.lower()
matches(name, keyword) == contains(lower(name), lower(keyword))

\* the least element of a non-empty set of numbers
least(S) == CHOOSE x \in S : \A y \in S : x <= y

\* lines 556-559: the specific indexes inside the list, in the order tried
specific_hits(mic_list) ==
    {k \in 1..Len(specific_indices) : specific_indices[k] < Len(mic_list)}

\* lines 571-575: [keyword, device] pairs that match; the loop over the
\* keywords is the outer one
keyword_hits(mic_list) ==
    {pair \in (1..Len(priority_keywords)) \X (0..(Len(mic_list) - 1)) :
       matches(mic_list[pair[2] + 1], priority_keywords[pair[1]])}

\* line 580: the name contains none of avoid_keywords
not_output(name) ==
    ~ \E k \in 1..Len(avoid_keywords) : matches(name, avoid_keywords[k])

\* lines 579-582
input_hits(mic_list) ==
    {i \in 0..(Len(mic_list) - 1) : not_output(mic_list[i + 1])}

\* a find_best_microphone without the list of specific indexes
find_best_microphone_by_name(mic_list) ==
    IF keyword_hits(mic_list) # {}
    THEN LET keyword == least({pair[1] : pair \in keyword_hits(mic_list)})
         IN  least({pair[2] : pair \in
                      {q \in keyword_hits(mic_list) : q[1] = keyword}})
    ELSE IF input_hits(mic_list) # {}
    THEN least(input_hits(mic_list))
    ELSE IF mic_list # <<>>
    THEN 0
    ELSE NoDevice

\* lines 553-590, for a list_microphone_names() that returned mic_list
find_best_microphone(mic_list) ==
    IF specific_hits(mic_list) # {}
    THEN specific_indices[least(specific_hits(mic_list))]
    ELSE find_best_microphone_by_name(mic_list)

\* the driver reports one more device before the assistant starts
device_plugged(name) ==
    /\ mic_listing = Unlisted
    /\ Len(mic_names) < MaxDevices
    /\ mic_names' = Append(mic_names, name)
    /\ UNCHANGED <<mic_listing, best_mic_index>>
    /\ UNCHANGED <<now, assistant_vars, stt_vars, thread_vars, env_vars,
                   utterances, shutdown_vars, tts_vars, context, pc_adj,
                   display_vars>>

\* BaseSTT.start, line 600: best_mic_index = self.find_best_microphone();
\* listed = FALSE when list_microphone_names() raises (lines 591-593)
start_find_best_microphone(listed) ==
    /\ mic_listing = Unlisted
    /\ mic_listing' = IF listed THEN "listed" ELSE "error"
    /\ best_mic_index' = IF listed THEN find_best_microphone(mic_names)
                                   ELSE NoDevice
    /\ UNCHANGED mic_names
    /\ UNCHANGED <<now, assistant_vars, stt_vars, thread_vars, env_vars,
                   utterances, shutdown_vars, tts_vars, context, pc_adj,
                   display_vars>>

\* a longer wait between two inputs
Wait(seconds, limit) ==
    /\ now + seconds <= limit
    /\ now' = now + seconds
    /\ UNCHANGED <<assistant_vars, stt_vars, thread_vars, env_vars, utterances,
                   shutdown_vars, tts_vars, context, pc_adj, display_vars, mic_vars>>

\* a process_audio that counts on without ever starting a new window
process_audio_unbounded(energy) ==
    LET total == total_frames + 1
        speech == IsSpeechEnergy(energy)
        sp == IF speech THEN speech_frames + 1 ELSE speech_frames
        si == IF speech THEN silence_frames ELSE silence_frames + 1
    IN  /\ last_speech_time' = IF speech THEN now ELSE last_speech_time
        /\ silence_ratio' = <<si, total>>
        /\ total_frames' = total
        /\ silence_frames' = si
        /\ speech_frames' = sp

(***************************************************************************)
(* BaseSTT.audio_callback, run by the background listener for every        *)
(* captured segment: process_audio, audio_queue.put, and for a speech      *)
(* segment the quick recognition whose best guess goes on                  *)
(* partial_result_queue (partial = None: no usable guess or an error).     *)
(***************************************************************************)
process_audio(energy) ==
    LET total == total_frames + 1
        speech == IsSpeechEnergy(energy)
        sp == IF speech THEN speech_frames + 1 ELSE speech_frames
        si == IF speech THEN silence_frames ELSE silence_frames + 1
    IN  /\ last_speech_time' = IF speech THEN now ELSE last_speech_time
        /\ silence_ratio' = <<si, total>>
        /\ IF total > window_frames
           THEN /\ total_frames' = 0
                /\ silence_frames' = 0
                /\ speech_frames' = 0
           ELSE /\ total_frames' = total
                /\ silence_frames' = si
                /\ speech_frames' = sp

audio_callback(energy, partial, limit) ==
    /\ background_listening
    /\ captured < limit
    /\ captured' = captured + 1
    /\ process_audio(energy)
    /\ audio_queue' = Append(audio_queue, captured + 1)
    /\ partial_result_queue' =
         IF IsSpeechEnergy(energy) /\ partial # None
         THEN Append(partial_result_queue, [text |-> partial, time |-> now])
         ELSE partial_result_queue
    /\ UNCHANGED <<worker_vars, active_vars, shutdown_vars, tts_vars, context, pc_adj, display_vars, mic_vars>>
    /\ UNCHANGED <<now, assistant_vars, result_queue, energy_threshold,
                   last_detected_language, thread_vars, delivered, typed,
                   utterances>>

(***************************************************************************)
(* The last step of a recognition thread (recognize_worker, or             *)
(* active_listening_loop): the recognized text goes on result_queue with   *)
(* the language hint of that moment.  The threads up to this step are      *)
(* WorkerSpec and ActiveSpec below.                                        *)
(***************************************************************************)
result_put(text) ==
    /\ delivered < MaxResults
    /\ delivered' = delivered + 1
    /\ result_queue' = Append(result_queue,
           [text |-> text, lang |-> last_detected_language, time |-> now])
    /\ UNCHANGED <<worker_vars, active_vars, shutdown_vars, tts_vars, context, pc_adj, display_vars, mic_vars>>
    /\ UNCHANGED <<now, assistant_vars, partial_result_queue, audio_queue,
                   last_speech_time, silence_frames, speech_frames,
                   total_frames, silence_ratio, energy_threshold,
                   last_detected_language, thread_vars, captured, typed,
                   utterances>>


(***************************************************************************)
(* VoiceAssistant.silence_monitor                                          *)
(*   check  : lines 74-98 / 101-106, the warm-up test and the decision     *)
(*   pause  : after the print of line 99, the write of line 100            *)
(*   resume : after the print of line 107, the write of line 108           *)
(*   sleep  : time.sleep(0.2)                                              *)
(***************************************************************************)
\* a warm-up test that switches silence detection off while the warm-up
\* period is running
warm_up_check_reenters(enabled, elapsed_time) ==
    IF elapsed_time < warm_up_period THEN FALSE ELSE enabled

\* lines 74-87: the value of silence_detection_enabled after the warm-up test
warm_up_check(enabled, elapsed_time) ==
    LET in_warm_up == elapsed_time < warm_up_period
    IN  IF in_warm_up /\ ~enabled THEN enabled
        ELSE IF in_warm_up /\ elapsed_time >= warm_up_period - 1 THEN TRUE
        ELSE enabled

\* lines 96-98: the pause condition on the state just read
pause_condition(state, speaking) ==
    /\ state.silence_duration > silence_threshold_local
    /\ state.is_silent
    /\ ~speaking

\* a resume test with the comparison the wrong way round
resume_condition_inverted(state) == ~BelowResume(state.silence_ratio)

\* line 106: the resume condition on the state just read
resume_condition(state) == BelowResume(state.silence_ratio)

\* a monitor that pauses and resumes without looking at
\* silence_detection_enabled
monitor_decision_no_latch(enabled, listening, state, speaking) ==
    IF listening
    THEN IF pause_condition(state, speaking) THEN "pause" ELSE "sleep"
    ELSE IF resume_condition(state) THEN "resume" ELSE "sleep"

\* lines 90-108: where the loop goes once silence detection is known to be
\* enabled or not
monitor_decision(enabled, listening, state, speaking) ==
    IF ~enabled THEN "sleep"
    ELSE IF listening
         THEN IF pause_condition(state, speaking) THEN "pause" ELSE "sleep"
         ELSE IF resume_condition(state) THEN "resume" ELSE "sleep"

silence_monitor_check ==
    /\ pc_mon = "check"
    /\ LET enabled == warm_up_check(silence_detection_enabled, now - start_time)
           next == monitor_decision(enabled, is_listening, GetSpeechState,
                                    is_speaking)
       IN  /\ silence_detection_enabled' = enabled
           /\ pc_mon' = next
           /\ speech_state' = IF next \in {"pause", "resume"}
                              THEN GetSpeechState ELSE NoSpeechState
    /\ UNCHANGED <<worker_vars, active_vars, shutdown_vars, tts_vars, context, pc_adj, display_vars, mic_vars>>
    /\ UNCHANGED <<now, text_queue, is_listening, is_speaking, start_time,
                   current_language, last_full_result, showing_partial,
                   conversation_history, current_mode, stt_vars,
                   pc_stt, stt_result, pc_ptm, ptm_text,
                   pc_ptq, ptq_text, ptq_response, env_vars,
                   utterances>>

silence_monitor_write(listening) ==
    /\ is_listening' = listening
    /\ pc_mon' = "sleep"
    /\ speech_state' = NoSpeechState
    /\ UNCHANGED <<worker_vars, active_vars, shutdown_vars, tts_vars, context, pc_adj, display_vars, mic_vars>>
    /\ UNCHANGED <<now, text_queue, is_speaking, start_time,
                   silence_detection_enabled, current_language,
                   last_full_result, showing_partial, conversation_history,
                   current_mode, stt_vars, pc_stt, stt_result, pc_ptm,
                   ptm_text, pc_ptq, ptq_text, ptq_response, env_vars,
                   utterances>>

silence_monitor_pause ==
    /\ pc_mon = "pause"
    /\ silence_monitor_write(FALSE)

silence_monitor_resume ==
    /\ pc_mon = "resume"
    /\ silence_monitor_write(TRUE)

silence_monitor_sleep ==
    /\ pc_mon = "sleep"
    /\ pc_mon' = "check"
    /\ UNCHANGED <<worker_vars, active_vars, shutdown_vars, tts_vars, context, pc_adj, display_vars, mic_vars>>
    /\ UNCHANGED <<now, assistant_vars, stt_vars, speech_state, pc_stt,
                   stt_result, pc_ptm, ptm_text, pc_ptq, ptq_text,
                   ptq_response, env_vars,
                   utterances>>

\* a user input that leaves silence detection as it was
user_input_enables_never(enabled) == enabled

\* lines 143-145 (and 296-298, 424-426): a user input enables silence
\* detection if it is not enabled yet
user_input_enables(enabled) == IF ~enabled THEN TRUE ELSE enabled

(***************************************************************************)
(* VoiceAssistant.stt_processor                                            *)
(*   take : lines 117-130, the queue test, get(), the strip() test, the    *)
(*          timestamp and the "You:" line                                   *)
(*   put  : lines 131-148                                                  *)
(* An iteration that finds the queue empty, or listening paused, changes   *)
(* nothing.                                                                *)
(***************************************************************************)
stt_processor_take ==
    /\ pc_stt = "take"
    /\ result_queue # <<>>
    /\ is_listening
    /\ LET result == Head(result_queue)
       IN  /\ result_queue' = Tail(result_queue)
           /\ IF Strip(result.text) # ""
              THEN /\ showing_partial' = FALSE
                   /\ stt_result' = [text |-> result.text, lang |-> result.lang,
                                     timestamp |-> now]
                   /\ pc_stt' = "put"
              ELSE UNCHANGED <<showing_partial, stt_result, pc_stt>>
    /\ UNCHANGED <<worker_vars, active_vars, shutdown_vars, tts_vars, context, pc_adj, display_vars, mic_vars>>
    /\ UNCHANGED <<now, text_queue, is_listening, is_speaking, start_time,
                   silence_detection_enabled, current_language,
                   last_full_result, conversation_history, current_mode,
                   partial_result_queue, audio_queue, last_speech_time,
                   silence_frames, speech_frames, total_frames, silence_ratio,
                   energy_threshold, last_detected_language,
                   pc_mon, speech_state, pc_ptm, ptm_text,
                   pc_ptq, ptq_text, ptq_response, env_vars, utterances>>

stt_processor_put ==
    /\ pc_stt = "put"
    /\ last_full_result' = stt_result.text
    /\ current_language' = PrimaryCode(stt_result.lang)
    /\ text_queue' = Append(text_queue, stt_result.text)
    /\ utterances' = Append(utterances, stt_result)
    /\ silence_detection_enabled' =
         user_input_enables(silence_detection_enabled)
    /\ start_time' = now
    /\ last_shown' = [kind |-> "final", text |-> stt_result.text]
    /\ UNCHANGED last_partial
    /\ pc_stt' = "take"
    /\ UNCHANGED <<worker_vars, active_vars, shutdown_vars, tts_vars, context, pc_adj, mic_vars>>
    /\ UNCHANGED <<now, stt_result, is_listening, is_speaking, showing_partial,
                   conversation_history, current_mode, stt_vars,
                   pc_mon, speech_state, pc_ptm, ptm_text,
                   pc_ptq, ptq_text, ptq_response, env_vars>>

(***************************************************************************)
(* VoiceAssistant.partial_text_monitor                                     *)
(*   take : lines 285-291, the queue test, get(), the comparison with      *)
(*          last_full_result and the "[Partial]" line                      *)
(*   show : lines 293-298                                                  *)
(***************************************************************************)
\* line 289: whether a partial text is displayed
partial_is_shown(partial_text, last_full) ==
    partial_text # "" /\ partial_text # last_full

partial_text_monitor_take ==
    /\ pc_ptm = "take"
    /\ partial_result_queue # <<>>
    /\ is_listening
    /\ LET partial_text == Strip(Head(partial_result_queue).text)
       IN  /\ partial_result_queue' = Tail(partial_result_queue)
           /\ ptm_text' = partial_text
           /\ pc_ptm' = IF partial_is_shown(partial_text, last_full_result)
                        THEN "show" ELSE "take"
           /\ last_shown' = IF partial_is_shown(partial_text, last_full_result)
                            THEN [kind |-> "partial", text |-> partial_text]
                            ELSE last_shown
    /\ UNCHANGED last_partial
    /\ UNCHANGED <<worker_vars, active_vars, shutdown_vars, tts_vars, context, pc_adj, mic_vars>>
    /\ UNCHANGED <<now, assistant_vars, result_queue, audio_queue,
                   last_speech_time, silence_frames, speech_frames,
                   total_frames, silence_ratio, energy_threshold,
                   last_detected_language, pc_mon, speech_state,
                   pc_stt, stt_result, pc_ptq, ptq_text, ptq_response,
                   env_vars, utterances>>

\* a partial_text_monitor that hands the displayed partial on as an utterance
partial_text_monitor_show_confirms ==
    /\ pc_ptm = "show"
    /\ showing_partial' = TRUE
    /\ silence_detection_enabled' =
         user_input_enables(silence_detection_enabled)
    /\ text_queue' = Append(text_queue, ptm_text)
    /\ pc_ptm' = "take"
    /\ UNCHANGED <<worker_vars, active_vars, shutdown_vars, tts_vars, context, pc_adj, display_vars, mic_vars>>
    /\ UNCHANGED <<now, ptm_text, is_listening, is_speaking, start_time,
                   current_language, last_full_result, conversation_history,
                   current_mode, stt_vars, pc_mon, speech_state,
                   pc_stt, stt_result, pc_ptq, ptq_text, ptq_response,
                   env_vars, utterances>>

partial_text_monitor_show ==
    /\ pc_ptm = "show"
    /\ showing_partial' = TRUE
    /\ silence_detection_enabled' =
         user_input_enables(silence_detection_enabled)
    /\ pc_ptm' = "take"
    /\ UNCHANGED <<worker_vars, active_vars, shutdown_vars, tts_vars, context, pc_adj, display_vars, mic_vars>>
    /\ UNCHANGED <<now, ptm_text, text_queue, is_listening, is_speaking,
                   start_time, current_language, last_full_result, conversation_history,
                   current_mode, stt_vars, pc_mon, speech_state,
                   pc_stt, stt_result, pc_ptq, ptq_text, ptq_response,
                   env_vars, utterances>>

(***************************************************************************)
(* BaseSTT.partial_result_processor, the thread BaseSTT.start starts at    *)
(* line 613: lines 349-357, the queue test, get(), the comparison with     *)
(* last_partial and its own "[Partial]" line.  It does not look at the     *)
(* assistant's is_listening and enables nothing.                           *)
(***************************************************************************)
partial_result_processor ==
    /\ ~stop_thread
    /\ partial_result_queue # <<>>
    /\ partial_result_queue' = Tail(partial_result_queue)
    /\ last_partial' = Head(partial_result_queue).text
    /\ UNCHANGED last_shown
    /\ UNCHANGED <<worker_vars, active_vars, shutdown_vars, tts_vars, context,
                   pc_adj, mic_vars>>
    /\ UNCHANGED <<now, assistant_vars, result_queue, audio_queue,
                   last_speech_time, silence_frames, speech_frames,
                   total_frames, silence_ratio, energy_threshold,
                   last_detected_language, thread_vars, env_vars, utterances>>

(***************************************************************************)
(* VoiceAssistant.keyboard_input_thread: one line returned by input(),     *)
(* lines 407-429.  A line that strips to nothing is skipped.               *)
(***************************************************************************)
keyboard_input_thread(text) ==
    /\ typed < MaxTyped
    /\ typed' = typed + 1
    /\ IF Strip(text) = ""
       THEN UNCHANGED <<text_queue, silence_detection_enabled, start_time>>
       ELSE /\ text_queue' = Append(text_queue, text)
            /\ silence_detection_enabled' =
                 user_input_enables(silence_detection_enabled)
            /\ start_time' = now
    /\ UNCHANGED <<worker_vars, active_vars, shutdown_vars, tts_vars, context, pc_adj, display_vars, mic_vars>>
    /\ UNCHANGED <<now, is_listening, is_speaking, current_language,
                   last_full_result, showing_partial, conversation_history,
                   current_mode, stt_vars, thread_vars, captured, delivered,
                   utterances>>


(***************************************************************************)
(* VoiceAssistant.run and process_text_queue (the asyncio main thread)     *)
(*   welcome  : run() lines 340-355, the welcome message is played         *)
(*   idle     : line 182, waiting for a text                               *)
(*   generate : line 208, generate_response is running                     *)
(*   speak    : lines 213 / 221 / 230, generate_speech is running          *)
(*   exit_speak : line 194, generate_speech of the exit-mode confirmation  *)
(***************************************************************************)
run_welcome ==
    /\ pc_ptq = "welcome"
    /\ pc_ptq' = "idle"
    /\ UNCHANGED <<worker_vars, active_vars, shutdown_vars, tts_vars, context, pc_adj, display_vars, mic_vars>>
    /\ UNCHANGED <<now, assistant_vars, stt_vars, pc_mon, speech_state,
                   pc_stt, stt_result, pc_ptm, ptm_text, ptq_text,
                   ptq_response, env_vars, utterances>>

\* lines 182-201: take a text, look for a command
\* a process_text_queue that stops listening when it takes a text to answer
process_text_queue_take_mutes ==
    /\ pc_ptq = "idle"
    /\ text_queue # <<>>
    /\ LET text == Head(text_queue)
       IN  /\ text_queue' = Tail(text_queue)
           /\ ptq_text' = text
           /\ IF check_for_commands(text) = "exit_mode"
              THEN /\ current_mode' = "general"
                   /\ ptq_response' = ExitReply
                   /\ pc_ptq' = "exit_speak"
                   /\ UNCHANGED <<is_speaking, context>>
              ELSE /\ is_speaking' = TRUE
                   /\ context' =
                        get_conversation_context(conversation_history, now)
                   /\ pc_ptq' = "generate"
                   /\ UNCHANGED <<current_mode, ptq_response>>
    /\ is_listening' = FALSE
    /\ UNCHANGED <<worker_vars, active_vars, shutdown_vars, tts_vars, pc_adj, display_vars, mic_vars>>
    /\ UNCHANGED <<now, start_time, silence_detection_enabled,
                   current_language, last_full_result, showing_partial,
                   conversation_history, stt_vars, pc_mon, speech_state,
                   pc_stt, stt_result, pc_ptm, ptm_text, env_vars,
                   utterances>>

\* a process_text_queue that takes the text put on the queue last
process_text_queue_take_newest ==
    /\ pc_ptq = "idle"
    /\ text_queue # <<>>
    /\ LET text == text_queue[Len(text_queue)]
       IN  /\ text_queue' = SubSeq(text_queue, 1, Len(text_queue) - 1)
           /\ ptq_text' = text
           /\ IF check_for_commands(text) = "exit_mode"
              THEN /\ current_mode' = "general"
                   /\ ptq_response' = ExitReply
                   /\ pc_ptq' = "exit_speak"
                   /\ UNCHANGED <<is_speaking, context>>
              ELSE /\ is_speaking' = TRUE
                   /\ context' =
                        get_conversation_context(conversation_history, now)
                   /\ pc_ptq' = "generate"
                   /\ UNCHANGED <<current_mode, ptq_response>>
    /\ UNCHANGED <<worker_vars, active_vars, shutdown_vars, tts_vars, pc_adj, display_vars, mic_vars>>
    /\ UNCHANGED <<now, is_listening, start_time, silence_detection_enabled,
                   current_language, last_full_result, showing_partial,
                   conversation_history, stt_vars, pc_mon, speech_state,
                   pc_stt, stt_result, pc_ptm, ptm_text, env_vars,
                   utterances>>

\* a process_text_queue that takes a text only while listening is active
process_text_queue_take_listening ==
    /\ pc_ptq = "idle"
    /\ is_listening
    /\ text_queue # <<>>
    /\ LET text == Head(text_queue)
       IN  /\ text_queue' = Tail(text_queue)
           /\ ptq_text' = text
           /\ IF check_for_commands(text) = "exit_mode"
              THEN /\ current_mode' = "general"
                   /\ ptq_response' = ExitReply
                   /\ pc_ptq' = "exit_speak"
                   /\ UNCHANGED <<is_speaking, context>>
              ELSE /\ is_speaking' = TRUE
                   /\ context' =
                        get_conversation_context(conversation_history, now)
                   /\ pc_ptq' = "generate"
                   /\ UNCHANGED <<current_mode, ptq_response>>
    /\ UNCHANGED <<worker_vars, active_vars, shutdown_vars, tts_vars, pc_adj, display_vars, mic_vars>>
    /\ UNCHANGED <<now, is_listening, start_time, silence_detection_enabled,
                   current_language, last_full_result, showing_partial,
                   conversation_history, stt_vars, pc_mon, speech_state,
                   pc_stt, stt_result, pc_ptm, ptm_text, env_vars,
                   utterances>>

process_text_queue_take ==
    /\ pc_ptq = "idle"
    /\ text_queue # <<>>
    /\ LET text == Head(text_queue)
       IN  /\ text_queue' = Tail(text_queue)
           /\ ptq_text' = text
           /\ IF check_for_commands(text) = "exit_mode"
              THEN /\ current_mode' = "general"
                   /\ ptq_response' = ExitReply
                   /\ pc_ptq' = "exit_speak"
                   /\ UNCHANGED <<is_speaking, context>>
              ELSE /\ is_speaking' = TRUE
                   /\ context' =
                        get_conversation_context(conversation_history, now)
                   /\ pc_ptq' = "generate"
                   /\ UNCHANGED <<current_mode, ptq_response>>
    /\ UNCHANGED <<worker_vars, active_vars, shutdown_vars, tts_vars, pc_adj, display_vars, mic_vars>>
    /\ UNCHANGED <<now, is_listening, start_time, silence_detection_enabled,
                   current_language, last_full_result, showing_partial,
                   conversation_history, stt_vars, pc_mon, speech_state,
                   pc_stt, stt_result, pc_ptm, ptm_text, env_vars,
                   utterances>>

\* a process_text_queue that speaks whatever generate_response gave
spoken_for_unchecked(reply) == reply

\* lines 208-230: what is spoken for an outcome of generate_response
spoken_for(reply) ==
    IF reply = Raised THEN FallbackRaised
    ELSE IF reply = NoReply THEN FallbackNoReply
    ELSE reply

process_text_queue_generate(reply) ==
    /\ pc_ptq = "generate"
    /\ ptq_response' = spoken_for(reply)
    /\ pc_ptq' = "speak"
    /\ UNCHANGED <<worker_vars, active_vars, shutdown_vars, tts_vars, context, pc_adj, display_vars, mic_vars>>
    /\ UNCHANGED <<now, assistant_vars, stt_vars, pc_mon, speech_state,
                   pc_stt, stt_result, pc_ptm, ptm_text, ptq_text,
                   env_vars, utterances>>

\* an exchange recorded reply first
record_exchange_reply_first(history, text, response) ==
    add_to_conversation_history(
        add_to_conversation_history(history, "assistant", response),
        "user", text)

\* lines 197-198 / 216-217 / 224-225 / 233-234: the two history entries
record_exchange(history, text, response) ==
    add_to_conversation_history(
        add_to_conversation_history(history, "user", text),
        "assistant", response)

\* a process_text_queue that leaves is_speaking set after the speech
process_text_queue_speak_stays ==
    /\ pc_ptq = "speak"
    /\ conversation_history' =
         record_exchange(conversation_history, ptq_text, ptq_response)
    /\ pc_ptq' = "idle"
    /\ ptq_text' = None
    /\ ptq_response' = None
    /\ UNCHANGED <<worker_vars, active_vars, shutdown_vars, tts_vars, context,
                   pc_adj, display_vars, mic_vars>>
    /\ UNCHANGED <<now, text_queue, is_listening, is_speaking, start_time,
                   silence_detection_enabled, current_language,
                   last_full_result, showing_partial, current_mode, stt_vars,
                   pc_mon, speech_state, pc_stt, stt_result, pc_ptm, ptm_text,
                   env_vars, utterances>>

\* generate_speech has returned: lines 216-217 (224-225, 233-234) and 236
process_text_queue_speak ==
    /\ pc_ptq = "speak"
    /\ conversation_history' =
         record_exchange(conversation_history, ptq_text, ptq_response)
    /\ is_speaking' = FALSE
    /\ pc_ptq' = "idle"
    /\ ptq_text' = None
    /\ ptq_response' = None
    /\ UNCHANGED <<worker_vars, active_vars, shutdown_vars, tts_vars, context, pc_adj, display_vars, mic_vars>>
    /\ UNCHANGED <<now, text_queue, is_listening, start_time,
                   silence_detection_enabled, current_language,
                   last_full_result, showing_partial, current_mode, stt_vars,
                   pc_mon, speech_state, pc_stt, stt_result, pc_ptm, ptm_text,
                   env_vars, utterances>>

\* generate_speech of the exit-mode confirmation has returned: lines 197-198
process_text_queue_exit ==
    /\ pc_ptq = "exit_speak"
    /\ conversation_history' =
         record_exchange(conversation_history, ptq_text, ptq_response)
    /\ pc_ptq' = "idle"
    /\ ptq_text' = None
    /\ ptq_response' = None
    /\ UNCHANGED <<worker_vars, active_vars, shutdown_vars, tts_vars, context, pc_adj, display_vars, mic_vars>>
    /\ UNCHANGED <<now, text_queue, is_listening, is_speaking, start_time,
                   silence_detection_enabled, current_language,
                   last_full_result, showing_partial, current_mode, stt_vars,
                   pc_mon, speech_state, pc_stt, stt_result, pc_ptm, ptm_text,
                   env_vars, utterances>>

(***************************************************************************)
(* BaseSTT.recognize_worker, one of the three threads                      *)
(*   idle     : line 276, the loop test, and line 277, the queue test      *)
(*   get      : line 278, audio_queue.get(), which blocks while the queue  *)
(*              is empty                                                   *)
(*   hint     : line 282, the call with the language hint is in flight     *)
(*   rerecog  : line 290, the call with the detected language is in flight *)
(*   fallback : line 318, the call with supported_languages[w_index] is in *)
(*              flight                                                     *)
(***************************************************************************)
\* SUPPORTED_LANGUAGES as lang_map.get(code, default)
lang_map_get(code, default) ==
    CASE code = "en" -> "en-US"
      [] code = "fr" -> "fr-FR"
      [] code = "es" -> "es-ES"
      [] OTHER -> default

\* BaseSTT.detect_language_from_text, given what detect(text) did
detect_language_from_text(detected_code) ==
    IF detected_code = DetectFailed THEN last_detected_language
    ELSE lang_map_get(detected_code, last_detected_language)

\* lines 313-315: the first place at or after `from` in supported_languages
\* whose language is not the hint of the moment, 0 when there is none
next_fallback(from, hint) ==
    LET left == {i \in from..Len(Langs) : Langs[i] # hint}
    IN  IF left = {} THEN 0
        ELSE CHOOSE i \in left : \A j \in left : i <= j

\* the dictionary put on result_queue
result_entry(text, lang) ==
    [text |-> text, lang |-> lang, time |-> now]

worker_unchanged ==
    UNCHANGED <<now, assistant_vars, partial_result_queue, last_speech_time,
                silence_frames, speech_frames, total_frames, silence_ratio,
                energy_threshold, pc_mon, speech_state, pc_stt, stt_result,
                pc_ptm, ptm_text, pc_ptq, ptq_text, ptq_response, env_vars,
                utterances, active_vars, shutdown_vars, tts_vars, context, pc_adj, display_vars, mic_vars>>

\* lines 276-277: the loop goes on and the queue is seen non-empty
recognize_worker_test(w) ==
    /\ w_pc[w] = "idle"
    /\ ~stop_thread
    /\ audio_queue # <<>>
    /\ w_pc' = [w_pc EXCEPT ![w] = "get"]
    /\ UNCHANGED <<audio_queue, result_queue, last_detected_language,
                   w_audio, w_lang, w_text, w_detected, w_index, taken>>
    /\ worker_unchanged

\* a get() that returns the first item and leaves it on the queue
queue_after_peek(queue) == queue

\* line 278: the queue once get() has returned its first item
queue_after_get(queue) == Tail(queue)

\* line 278, and line 282 up to the call: the hint is read when the call is made
recognize_worker_get(w) ==
    /\ w_pc[w] = "get"
    /\ audio_queue # <<>>
    /\ w_audio' = [w_audio EXCEPT ![w] = Head(audio_queue)]
    /\ taken' = Append(taken, [worker |-> w, segment |-> Head(audio_queue)])
    /\ audio_queue' = queue_after_get(audio_queue)
    /\ w_lang' = [w_lang EXCEPT ![w] = last_detected_language]
    /\ w_pc' = [w_pc EXCEPT ![w] = "hint"]
    /\ UNCHANGED <<result_queue, last_detected_language, w_text, w_detected,
                   w_index>>
    /\ worker_unchanged

\* lines 282-315: the call with the hint returns or raises
recognize_worker_hint(w, outcome, detected_code) ==
    /\ w_pc[w] = "hint"
    /\ IF outcome = OtherError
       THEN \* no handler of lines 308 and 340 matches: the thread ends
            /\ w_pc' = [w_pc EXCEPT ![w] = "dead"]
            /\ UNCHANGED <<result_queue, w_lang, w_text, w_detected, w_index>>
       ELSE IF outcome = RequestError
       THEN \* line 340
            /\ w_pc' = [w_pc EXCEPT ![w] = "idle"]
            /\ UNCHANGED <<result_queue, w_lang, w_text, w_detected, w_index>>
       ELSE IF outcome = UnknownValue
       THEN \* lines 308-315: on to the first language that is not the hint
            LET i == next_fallback(1, last_detected_language)
            IN  /\ w_index' = [w_index EXCEPT ![w] = i]
                /\ w_pc' = [w_pc EXCEPT ![w] =
                              IF i = 0 THEN "idle" ELSE "fallback"]
                /\ w_lang' = [w_lang EXCEPT ![w] =
                              IF i = 0 THEN w_lang[w] ELSE Langs[i]]
                /\ UNCHANGED <<result_queue, w_text, w_detected>>
       ELSE IF Strip(outcome) = ""
       THEN \* line 283 fails: nothing is done with an empty text
            /\ w_pc' = [w_pc EXCEPT ![w] = "idle"]
            /\ UNCHANGED <<result_queue, w_lang, w_text, w_detected, w_index>>
       ELSE LET detected_lang == detect_language_from_text(detected_code)
            IN  IF detected_lang # last_detected_language
                THEN \* line 290: the second call is made
                     /\ w_text' = [w_text EXCEPT ![w] = outcome]
                     /\ w_detected' = [w_detected EXCEPT ![w] = detected_lang]
                     /\ w_lang' = [w_lang EXCEPT ![w] = detected_lang]
                     /\ w_pc' = [w_pc EXCEPT ![w] = "rerecog"]
                     /\ UNCHANGED <<result_queue, w_index>>
                ELSE \* lines 296-302
                     /\ result_queue' = Append(result_queue,
                           result_entry(outcome, last_detected_language))
                     /\ w_text' = [w_text EXCEPT ![w] = outcome]
                     /\ w_detected' = [w_detected EXCEPT ![w] = detected_lang]
                     /\ w_pc' = [w_pc EXCEPT ![w] = "idle"]
                     /\ UNCHANGED <<w_lang, w_index>>
    /\ UNCHANGED <<audio_queue, last_detected_language, w_audio, taken>>
    /\ worker_unchanged

\* lines 290-302: the call with the detected language returns a text, or
\* raises anything, which the bare except swallows
recognize_worker_rerecog(w, outcome) ==
    /\ w_pc[w] = "rerecog"
    /\ LET raised == outcome \in {UnknownValue, RequestError, OtherError}
           text == IF raised THEN w_text[w] ELSE outcome
           hint == IF raised THEN last_detected_language ELSE w_detected[w]
       IN  /\ last_detected_language' = hint
           /\ w_text' = [w_text EXCEPT ![w] = text]
           /\ result_queue' = Append(result_queue, result_entry(text, hint))
    /\ w_pc' = [w_pc EXCEPT ![w] = "idle"]
    /\ UNCHANGED <<audio_queue, w_audio, w_lang, w_detected, w_index, taken>>
    /\ worker_unchanged

\* lines 317-339: the call with supported_languages[w_index] returns or raises
recognize_worker_fallback(w, outcome, detected_code) ==
    /\ w_pc[w] = "fallback"
    /\ IF outcome = OtherError
       THEN \* no handler of lines 338 and 340 matches: the thread ends
            /\ w_pc' = [w_pc EXCEPT ![w] = "dead"]
            /\ UNCHANGED <<result_queue, last_detected_language, w_lang,
                           w_text, w_detected, w_index>>
       ELSE IF outcome = RequestError
       THEN \* line 340
            /\ w_pc' = [w_pc EXCEPT ![w] = "idle"]
            /\ UNCHANGED <<result_queue, last_detected_language, w_lang,
                           w_text, w_detected, w_index>>
       ELSE IF outcome = UnknownValue \/ Strip(outcome) = ""
       THEN \* lines 338-339, or line 319 fails: the next language
            LET i == next_fallback(w_index[w] + 1, last_detected_language)
            IN  /\ w_index' = [w_index EXCEPT ![w] = i]
                /\ w_pc' = [w_pc EXCEPT ![w] =
                              IF i = 0 THEN "idle" ELSE "fallback"]
                /\ w_lang' = [w_lang EXCEPT ![w] =
                              IF i = 0 THEN w_lang[w] ELSE Langs[i]]
                /\ UNCHANGED <<result_queue, last_detected_language, w_text,
                               w_detected>>
       ELSE \* lines 320-337
            LET detected_lang == detect_language_from_text(detected_code)
            IN  /\ last_detected_language' = detected_lang
                /\ result_queue' = Append(result_queue,
                       result_entry(outcome, detected_lang))
                /\ w_text' = [w_text EXCEPT ![w] = outcome]
                /\ w_detected' = [w_detected EXCEPT ![w] = detected_lang]
                /\ w_pc' = [w_pc EXCEPT ![w] = "idle"]
                /\ UNCHANGED <<w_lang, w_index>>
    /\ UNCHANGED <<audio_queue, w_audio, taken>>
    /\ worker_unchanged

\* line 276: the loop test fails once stop_thread is set; the thread ends
recognize_worker_exit(w) ==
    /\ w_pc[w] = "idle"
    /\ stop_thread
    /\ w_pc' = [w_pc EXCEPT ![w] = "done"]
    /\ UNCHANGED <<audio_queue, result_queue, last_detected_language,
                   w_audio, w_lang, w_text, w_detected, w_index, taken>>
    /\ worker_unchanged

recognize_worker(w) ==
    \/ recognize_worker_test(w)
    \/ recognize_worker_get(w)
    \/ \E outcome \in RecognitionOutcomes, detected_code \in DetectOutcomes :
          recognize_worker_hint(w, outcome, detected_code)
    \/ \E outcome \in RecognitionOutcomes :
          recognize_worker_rerecog(w, outcome)
    \/ \E outcome \in RecognitionOutcomes, detected_code \in DetectOutcomes :
          recognize_worker_fallback(w, outcome, detected_code)

(***************************************************************************)
(* BaseSTT.active_listening_loop                                           *)
(*   init      : lines 365-408, before the loop                            *)
(*   listen    : lines 410-463 and 503-519, up to the end of listen()      *)
(*   recognize : lines 466-502, the recognition call is in flight          *)
(*   check     : lines 521-547                                             *)
(***************************************************************************)
active_unchanged ==
    UNCHANGED <<now, assistant_vars, partial_result_queue, audio_queue,
                last_speech_time, silence_frames, speech_frames, total_frames,
                silence_ratio, energy_threshold, last_detected_language,
                pc_mon, speech_state, pc_stt, stt_result, pc_ptm, ptm_text,
                pc_ptq, ptq_text, ptq_response, worker_vars, env_vars,
                utterances, shutdown_vars, tts_vars, context, pc_adj, display_vars, mic_vars>>

\* lines 378-408: the recognizer and the microphone are created, or both are
\* left None
active_listening_init(created) ==
    /\ pc_al = "init"
    /\ recognizer' = created
    /\ microphone' = created
    /\ pc_al' = "listen"
    /\ UNCHANGED <<result_queue, consecutive_errors, al_lang, listens, al_log>>
    /\ active_unchanged

\* lines 413-430: a missing recognizer or microphone is created again; when
\* that fails the iteration ends with `continue`
active_listening_reinit(created) ==
    /\ pc_al = "listen"
    /\ ~recognizer \/ ~microphone
    /\ listens < MaxListens
    /\ listens' = listens + 1
    /\ recognizer' = created
    /\ microphone' = created
    /\ UNCHANGED <<result_queue, pc_al, consecutive_errors, al_lang, al_log>>
    /\ active_unchanged

\* lines 433-463 and 503-519
active_listening_listen(outcome) ==
    /\ pc_al = "listen"
    /\ recognizer /\ microphone
    /\ listens < MaxListens
    /\ listens' = listens + 1
    /\ IF outcome = "heard"
       THEN \* lines 459-473
            /\ consecutive_errors' = 0
            /\ al_lang' = last_detected_language
            /\ al_log' = Append(al_log, "heard")
            /\ pc_al' = "recognize"
            /\ UNCHANGED <<recognizer, microphone>>
       ELSE IF outcome = "timeout"
       THEN \* line 503
            /\ al_log' = Append(al_log, "timeout")
            /\ pc_al' = "check"
            /\ UNCHANGED <<consecutive_errors, al_lang, recognizer, microphone>>
       ELSE \* lines 505-507, 508-514, 515-519
            /\ consecutive_errors' = consecutive_errors + 1
            /\ recognizer' = (outcome # "source_error")
            /\ microphone' = (outcome # "source_error")
            /\ al_log' = Append(al_log, "error")
            /\ pc_al' = "check"
            /\ UNCHANGED al_lang
    /\ UNCHANGED result_queue
    /\ active_unchanged

\* lines 466-502: Google with the hint, then Sphinx when Google gave no text
active_listening_recognize(google, sphinx) ==
    /\ pc_al = "recognize"
    /\ LET google_text == IF google \in {UnknownValue, RequestError}
                          THEN "" ELSE google
           text == IF google_text # "" THEN google_text
                   ELSE IF sphinx = SphinxFailed THEN "" ELSE sphinx
       IN  /\ result_queue' =
                IF text # ""
                THEN Append(result_queue,
                            result_entry(text, last_detected_language))
                ELSE result_queue
           /\ al_log' = Append(al_log,
                IF google = RequestError THEN "request_error"
                ELSE IF google_text # "" THEN "recognized"
                ELSE "unrecognized")
    /\ pc_al' = "check"
    /\ UNCHANGED <<consecutive_errors, recognizer, microphone, al_lang,
                   listens>>
    /\ active_unchanged

\* a reset test that fires one error later
needs_reset_late(errors) ==
    errors > max_consecutive_errors

\* line 522
needs_reset(errors) ==
    errors >= max_consecutive_errors

\* lines 521-547
active_listening_check(created) ==
    /\ pc_al = "check"
    /\ IF needs_reset(consecutive_errors)
       THEN /\ recognizer' = created
            /\ microphone' = created
            /\ consecutive_errors' = 0
            /\ al_log' = Append(al_log, "reset")
       ELSE UNCHANGED <<recognizer, microphone, consecutive_errors, al_log>>
    /\ pc_al' = "listen"
    /\ UNCHANGED <<result_queue, al_lang, listens>>
    /\ active_unchanged

active_listening_loop ==
    \/ \E created \in BOOLEAN : active_listening_init(created)
    \/ \E created \in BOOLEAN : active_listening_reinit(created)
    \/ \E outcome \in ListenOutcomes : active_listening_listen(outcome)
    \/ \E google \in RecognitionOutcomes, sphinx \in SphinxOutcomes :
          active_listening_recognize(google, sphinx)
    \/ \E created \in BOOLEAN : active_listening_check(created)

(***************************************************************************)
(* BaseSTT.start, lines 621-646: creating the background microphone or     *)
(* listen_in_background raises, start prints "Falling back to active       *)
(* listening only." and audio_callback is never called.                    *)
(***************************************************************************)
background_listener_failed ==
    /\ background_listening
    /\ captured = 0
    /\ background_listening' = FALSE
    /\ UNCHANGED <<stop_threads, stop_thread>>
    /\ UNCHANGED <<now, assistant_vars, stt_vars, thread_vars, env_vars,
                   worker_vars, active_vars, utterances, tts_vars, context,
                   pc_adj, display_vars, mic_vars>>

(***************************************************************************)
(* VoiceAssistant.stop, with BaseSTT.stop: the flags are set and the       *)
(* background listener is told to stop.                                    *)
(***************************************************************************)
stop ==
    /\ ~stop_threads
    /\ stop_threads' = TRUE
    /\ stop_thread' = TRUE
    /\ background_listening' = FALSE
    /\ UNCHANGED <<now, assistant_vars, stt_vars, thread_vars, env_vars,
                   utterances, tts_vars, context, pc_adj, display_vars, mic_vars>>

(***************************************************************************)
(* EdgeTTSGenerator.generate_and_play_speech, the synthesizer behind       *)
(* generate_speech.  The assistant threads above hold a speech at          *)
(* "speak", "exit_speak" and "welcome"; the generator itself, with its     *)
(* duplicate guard, is watched in TtsSpec.                                 *)
(***************************************************************************)
\* texts handed to generate_speech
SpeechTexts == {"reply", FallbackNoReply}

\* a duplicate test that ignores the time passed
is_duplicate_any_time(text, current_time) ==
    text = last_message

\* lines 51-52: the duplicate test
is_duplicate(text, current_time) ==
    /\ text = last_message
    /\ current_time - last_message_time < duplicate_threshold

\* lines 50-58: the call returns at once for a duplicate; otherwise the text
\* is accepted (lines 57-58) and synthesized (lines 60-166)
generate_and_play_speech(text) ==
    /\ Len(tts_log) < MaxSpeeches
    /\ LET current_time == now
           skipped == is_duplicate(text, current_time)
       IN  /\ last_message' = IF skipped THEN last_message ELSE text
           /\ last_message_time' =
                IF skipped THEN last_message_time ELSE current_time
           /\ tts_log' = Append(tts_log,
                  [text |-> text, time |-> current_time,
                   synthesized |-> ~skipped])
    /\ UNCHANGED <<now, assistant_vars, stt_vars, thread_vars, env_vars,
                   utterances, shutdown_vars, context, pc_adj, display_vars, mic_vars>>

(***************************************************************************)
(* One call of add_to_conversation_history by process_text_queue, which    *)
(* records a user turn and then an assistant turn; datetime.now() has      *)
(* moved on by the next call.                                              *)
(***************************************************************************)
history_call(text) ==
    /\ now < MaxAppends
    /\ now' = now + 1
    /\ LET last == conversation_history[Len(conversation_history)]
       IN  conversation_history' =
             IF last.role = "assistant"
             THEN add_to_conversation_history(conversation_history,
                                              "user", text)
             ELSE add_to_conversation_history(conversation_history,
                                              "assistant", "reply")
    /\ UNCHANGED <<text_queue, is_listening, is_speaking, start_time,
                   silence_detection_enabled, current_language,
                   last_full_result, showing_partial, current_mode>>
    /\ UNCHANGED <<stt_vars, thread_vars, env_vars, utterances,
                   shutdown_vars, tts_vars, context, pc_adj, display_vars, mic_vars>>

(***************************************************************************)
(* Specifications.  Each one is the program in an environment that         *)
(* supplies some of its inputs; a thread whose input never arrives only    *)
(* runs loop iterations that change nothing, and is left out of Next.      *)
(***************************************************************************)
\* the last second a run looks at: one second past the warm-up period
Horizon == warm_up_period + 1

main_thread ==
    \/ run_welcome
    \/ process_text_queue_take
    \/ \E reply \in Replies : process_text_queue_generate(reply)
    \/ process_text_queue_speak
    \/ process_text_queue_exit

silence_monitor ==
    \/ silence_monitor_check
    \/ silence_monitor_pause
    \/ silence_monitor_resume
    \/ silence_monitor_sleep

stt_processor ==
    \/ stt_processor_take
    \/ stt_processor_put

partial_text_monitor ==
    \/ partial_text_monitor_take
    \/ partial_text_monitor_show

(***************************************************************************)
(* Spec: listening control.  The background listener captures segments,    *)
(* the recognition backend returns no text, the user types.  Threads: the  *)
(* background listener, silence_monitor, keyboard_input_thread, the main   *)
(* thread.                                                                 *)
(***************************************************************************)
Next ==
    \/ Tick(MaxTime)
    \/ \E energy \in Energies : audio_callback(energy, None, MaxSegments)
    \/ silence_monitor
    \/ \E text \in TypedTexts : keyboard_input_thread(text)
    \/ main_thread

Spec == Init /\ [][Next]_vars

(***************************************************************************)
(* WarmupSpec: the warm-up period from its start to its end, while the     *)
(* main thread is still playing the welcome message.  Threads: the         *)
(* background listener, silence_monitor, keyboard_input_thread.            *)
(***************************************************************************)
WarmupNext ==
    \/ Tick(Horizon)
    \/ \E energy \in Energies : audio_callback(energy, None, MaxSegments)
    \/ silence_monitor
    \/ \E text \in TypedTexts : keyboard_input_thread(text)

WarmupSpec == Init /\ [][WarmupNext]_vars

(***************************************************************************)
(* InputSpec: the three ways a user input reaches the assistant, while     *)
(* the main thread is still playing the welcome message.  Threads: the     *)
(* background listener with its quick recognition, the recognition         *)
(* threads, stt_processor, partial_text_monitor, keyboard_input_thread.    *)
(***************************************************************************)
InputNext ==
    \/ Tick(MaxInputTime)
    \/ \E energy \in Energies, partial \in PartialTexts \cup {None} :
          audio_callback(energy, partial, MaxSegments)
    \/ \E text \in FinalTexts : result_put(text)
    \/ stt_processor
    \/ partial_text_monitor
    \/ \E text \in TypedTexts : keyboard_input_thread(text)

InputSpec == Init /\ [][InputNext]_vars


(***************************************************************************)
(* WorkerSpec: the background listener captures segments and the three     *)
(* recognize_worker threads transcribe them; result_queue keeps every      *)
(* result.  Threads: the background listener, the recognize_worker         *)
(* threads.                                                                *)
(***************************************************************************)
WorkerNext ==
    \/ \E energy \in Energies :
          audio_callback(energy, None, MaxWorkerSegments)
    \/ \E w \in Workers : recognize_worker(w)

WorkerSpec == Init /\ [][WorkerNext]_vars

(***************************************************************************)
(* ActiveSpec: the active listening loop alone, with every way its         *)
(* captures and its recognition calls can end.                             *)
(* Threads: active_listening_loop.                                         *)
(***************************************************************************)
ActiveNext == active_listening_loop

ActiveSpec == Init /\ [][ActiveNext]_vars

(***************************************************************************)
(* The audio input devices.  BaseSTT.start and active_listening_loop each  *)
(* call find_best_microphone, which is a function of the list of devices,  *)
(* and each create their own sr.Microphone for the index it returns.       *)
(***************************************************************************)
\* sr.Microphone.list_microphone_names() on the machine both paths run on
machine_mic_names == <<Speakers, HeadsetMic>>

\* the device the background listener holds open: listen_in_background
\* enters `with source` in its thread and leaves it when stopped
background_source ==
    IF background_listening THEN find_best_microphone(machine_mic_names)
    ELSE NoDevice

\* the device active_listening_loop holds open: the recognition calls of
\* lines 466-502 are inside `with microphone as source` (line 438)
active_source ==
    IF pc_al = "recognize" THEN find_best_microphone(machine_mic_names)
    ELSE NoDevice

(***************************************************************************)
(* CaptureSpec: the two capture paths side by side.                        *)
(* Threads: the background listener, active_listening_loop.                *)
(***************************************************************************)
CaptureNext ==
    \/ \E energy \in Energies : audio_callback(energy, None, MaxSegments)
    \/ active_listening_loop

CaptureSpec == Init /\ [][CaptureNext]_vars

(***************************************************************************)
(* ShutdownSpec: segments are captured and transcribed, and at some moment *)
(* stop() is called.  A recognize_worker that can take a step eventually   *)
(* takes one.                                                              *)
(* Threads: the background listener, the recognize_worker threads, the     *)
(* caller of stop().                                                       *)
(***************************************************************************)
ShutdownNext ==
    \/ \E energy \in Energies : audio_callback(energy, None, MaxSegments)
    \/ \E w \in Workers : recognize_worker(w)
    \/ \E w \in Workers : recognize_worker_exit(w)
    \/ stop

ShutdownSpec ==
    /\ Init
    /\ [][ShutdownNext]_vars
    /\ \A w \in Workers :
          WF_vars(recognize_worker(w) \/ recognize_worker_exit(w))

(***************************************************************************)
(* FrameSpec: every thread of the program, with one user input in a run:   *)
(* a segment captured by the background listener, or speech heard by the   *)
(* active listening loop, or a typed line; after a typed line the          *)
(* background listener captures a segment only while listening is paused.  *)
(* Threads: all.                                                           *)
(***************************************************************************)
FrameNext ==
    \/ Tick(MaxTime)
    \/ silence_monitor
    \/ stt_processor
    \/ partial_text_monitor
    \/ main_thread
    \/ (captured = 0 /\ listens = 0
        /\ \E text \in TypedTexts : keyboard_input_thread(text))
    \/ (listens = 0 /\ (typed = 0 \/ ~is_listening)
        /\ \E energy \in Energies, partial \in {"he", None} :
              audio_callback(energy, partial, MaxSegments))
    \/ \E w \in Workers : recognize_worker_test(w)
    \/ \E w \in Workers : recognize_worker_get(w)
    \/ \E w \in Workers, outcome \in {"hello", UnknownValue} :
          recognize_worker_hint(w, outcome, "fr")
    \/ \E w \in Workers : recognize_worker_rerecog(w, "hello")
    \/ \E w \in Workers : recognize_worker_fallback(w, "hello", "fr")
    \/ \E created \in BOOLEAN : active_listening_init(created)
    \/ (typed = 0 /\ captured = 0 /\ listens < 1
        /\ \E created \in BOOLEAN : active_listening_reinit(created))
    \/ (typed = 0 /\ captured = 0 /\ listens < 1
        /\ \E outcome \in ListenOutcomes : active_listening_listen(outcome))
    \/ \E sphinx \in SphinxOutcomes :
          active_listening_recognize(RequestError, sphinx)
    \/ \E created \in BOOLEAN : active_listening_check(created)

FrameSpec == Init /\ [][FrameNext]_vars

(***************************************************************************)
(* LatchSpec: speech results, partials and a typed line arrive in any      *)
(* order while the clock runs and silence_monitor watches.                 *)
(* Threads: the background listener, the recognition threads,              *)
(* stt_processor, partial_text_monitor, keyboard_input_thread,             *)
(* silence_monitor.                                                        *)
(***************************************************************************)
LatchNext ==
    \/ Tick(MaxTime)
    \/ \E energy \in Energies, partial \in PartialTexts \cup {None} :
          audio_callback(energy, partial, MaxSegments)
    \/ \E text \in FinalTexts : result_put(text)
    \/ stt_processor
    \/ partial_text_monitor
    \/ \E text \in TypedTexts : keyboard_input_thread(text)
    \/ silence_monitor

LatchSpec == Init /\ [][LatchNext]_vars

(***************************************************************************)
(* KeyboardSpec: non-empty lines are typed while the clock runs, frames    *)
(* are captured, silence_monitor pauses and resumes listening and the main *)
(* thread answers.  The main thread is scheduled again and again (its loop *)
(* sleeps 0.1 s between iterations, line 240) and the calls it awaits      *)
(* return.                                                                 *)
(* Threads: the background listener, keyboard_input_thread,                *)
(* silence_monitor, the main thread.                                       *)
(***************************************************************************)
NonEmptyTyped == {text \in TypedTexts : Strip(text) # ""}

KeyboardNext ==
    \/ Tick(MaxTime)
    \/ \E energy \in Energies : audio_callback(energy, None, MaxSegments)
    \/ \E text \in NonEmptyTyped : keyboard_input_thread(text)
    \/ silence_monitor
    \/ main_thread

KeyboardSpec == Init /\ [][KeyboardNext]_vars /\ WF_vars(main_thread)

(***************************************************************************)
(* ApologySpec: a captured segment goes through a recognize_worker; each   *)
(* recognition call returns a text or raises UnknownValueError; what is    *)
(* recognized goes through stt_processor to the main thread, which answers *)
(* it.                                                                     *)
(* Threads: the background listener, the recognize_worker threads,         *)
(* stt_processor, the main thread.                                         *)
(***************************************************************************)
ApologyNext ==
    \/ \E energy \in Energies : audio_callback(energy, None, MaxSegments)
    \/ \E w \in Workers : recognize_worker_test(w)
    \/ \E w \in Workers : recognize_worker_get(w)
    \/ \E w \in Workers, outcome \in {"hello", "exit mode", UnknownValue},
          code \in {"en", "fr"} :
          recognize_worker_hint(w, outcome, code)
    \/ \E w \in Workers : recognize_worker_rerecog(w, "hello")
    \/ \E w \in Workers, outcome \in {"hello", UnknownValue} :
          recognize_worker_fallback(w, outcome, "fr")
    \/ stt_processor
    \/ main_thread

ApologySpec == Init /\ [][ApologyNext]_vars

(***************************************************************************)
(* CrashSpec: the recognize_worker threads transcribe captured segments;   *)
(* a recognition call returns a text, raises UnknownValueError or          *)
(* RequestError, or raises another exception.                              *)
(* Threads: the background listener, the recognize_worker threads.         *)
(***************************************************************************)
CrashNext ==
    \/ \E energy \in Energies :
          audio_callback(energy, None, MaxWorkerSegments)
    \/ \E w \in Workers : recognize_worker_test(w)
    \/ \E w \in Workers : recognize_worker_get(w)
    \/ \E w \in Workers, outcome \in RecognitionOutcomes \cup {OtherError},
          code \in {"en", "fr"} :
          recognize_worker_hint(w, outcome, code)
    \/ \E w \in Workers, outcome \in RecognitionOutcomes \cup {OtherError} :
          recognize_worker_rerecog(w, outcome)
    \/ \E w \in Workers, outcome \in RecognitionOutcomes \cup {OtherError} :
          recognize_worker_fallback(w, outcome, "fr")

CrashSpec == Init /\ [][CrashNext]_vars

(***************************************************************************)
(* ModeSpec: recognized and typed texts that match the command patterns of *)
(* check_for_commands, or none of them, are answered by the main thread.   *)
(* Threads: the recognition threads, stt_processor,                        *)
(* keyboard_input_thread, the main thread.                                 *)
(***************************************************************************)
CommandTexts == DocumentPhrases \cup ImagePhrases \cup ExitPhrases \cup {"hi"}

ModeNext ==
    \/ \E text \in CommandTexts : result_put(text)
    \/ stt_processor
    \/ \E text \in CommandTexts : keyboard_input_thread(text)
    \/ main_thread

ModeSpec == Init /\ [][ModeNext]_vars

(***************************************************************************)
(* TtsSpec: texts are handed to the synthesizer while the clock runs.      *)
(* Threads: the main thread, as the caller of generate_speech.             *)
(***************************************************************************)
TtsNext ==
    \/ Tick(MaxTime)
    \/ \E text \in SpeechTexts : generate_and_play_speech(text)

TtsSpec == Init /\ [][TtsNext]_vars

(***************************************************************************)
(* TrimSpec: turns are appended to conversation_history, one call of       *)
(* add_to_conversation_history at a time, past max_history_items * 2.      *)
(* Threads: the main thread.                                               *)
(***************************************************************************)
TrimNext == \E text \in {"hi", "hello"} : history_call(text)

TrimSpec == Init /\ [][TrimNext]_vars

(***************************************************************************)
(* ContextSpec: texts from the keyboard and from speech are answered by    *)
(* the main thread, with waits of the whole context window, or of a second *)
(* more, between them.                                                     *)
(* Threads: the recognition threads, stt_processor,                        *)
(* keyboard_input_thread, the main thread.                                 *)
(***************************************************************************)
ContextNext ==
    \/ \E seconds \in {context_window_minutes * 60,
                         context_window_minutes * 60 + 1} :
          Wait(seconds, MaxWait)
    \/ result_put("hello")
    \/ stt_processor
    \/ \E text \in NonEmptyTyped : keyboard_input_thread(text)
    \/ main_thread

ContextSpec == Init /\ [][ContextNext]_vars

(***************************************************************************)
(* FallbackSpec: the recognize_worker threads transcribe captured          *)
(* segments; a recognition call returns a text, returns an empty text or   *)
(* raises UnknownValueError (the service is reachable).                    *)
(* Threads: the background listener, the recognize_worker threads.         *)
(***************************************************************************)
FallbackNext ==
    \/ \E energy \in Energies :
          audio_callback(energy, None, MaxWorkerSegments)
    \/ \E w \in Workers : recognize_worker_test(w)
    \/ \E w \in Workers : recognize_worker_get(w)
    \/ \E w \in Workers, outcome \in {"hello", "", UnknownValue},
          code \in {"en", "fr"} :
          recognize_worker_hint(w, outcome, code)
    \/ \E w \in Workers, outcome \in {"hello", UnknownValue} :
          recognize_worker_rerecog(w, outcome)
    \/ \E w \in Workers, outcome \in {"hello", "", UnknownValue} :
          recognize_worker_fallback(w, outcome, "fr")

FallbackSpec == Init /\ [][FallbackNext]_vars

(***************************************************************************)
(* AdjustSpec: the wait for the ambient-noise adjustment has timed out;    *)
(* the background listener captures segments while the adjustment thread   *)
(* finishes.                                                               *)
(* Threads: the background listener, perform_adjustment.                   *)
(***************************************************************************)
AdjustNext ==
    \/ Tick(MaxTime)
    \/ \E energy \in Energies, partial \in PartialTexts \cup {None} :
          audio_callback(energy, partial, MaxWorkerSegments)
    \/ perform_adjustment

AdjustSpec == Init /\ [][AdjustNext]_vars

(***************************************************************************)
(* WindowSpec: the background listener captures more segments than one     *)
(* window of process_audio holds; the quick recognition of every speech    *)
(* segment has the same best guess, and nothing takes the guesses off      *)
(* their queue.                                                            *)
(* Threads: the background listener.                                       *)
(***************************************************************************)
WindowNext ==
    \E energy \in Energies : audio_callback(energy, "hello", MaxFrames)

WindowSpec == Init /\ [][WindowNext]_vars

(***************************************************************************)
(* PartialSpec: speech is captured while listening is active; the quick    *)
(* recognition of a speech segment has a best guess, the recognition       *)
(* threads deliver final texts, and the assistant prints both.  Listening  *)
(* is never paused: the whole run is one span.                             *)
(* Threads: the background listener with its quick recognition, the        *)
(* recognition threads, stt_processor, partial_text_monitor.               *)
(***************************************************************************)
PartialNext ==
    \/ \E energy \in Energies, partial \in PartialTexts :
          audio_callback(energy, partial, MaxWorkerSegments)
    \/ \E text \in FinalTexts : result_put(text)
    \/ stt_processor
    \/ partial_text_monitor

PartialSpec == Init /\ [][PartialNext]_vars

(***************************************************************************)
(* MicSpec: the sound driver lists up to MaxDevices devices, then          *)
(* BaseSTT.start looks for the best microphone.                            *)
(* Threads: the main thread.                                               *)
(***************************************************************************)
MicNext ==
    \/ \E name \in DeviceNames : device_plugged(name)
    \/ \E listed \in BOOLEAN : start_find_best_microphone(listed)

MicSpec == Init /\ [][MicNext]_vars

(***************************************************************************)
(* QueueSpec: the user types a line, then nothing is said for a while and  *)
(* listening is paused, while the recognition threads go on delivering     *)
(* results.                                                                *)
(* No audio reaches process_audio, so silence_monitor never finds the      *)
(* silence ratio below its resume level.                                   *)
(* Threads: the recognition threads, stt_processor, silence_monitor,       *)
(* keyboard_input_thread.                                                  *)
(***************************************************************************)
QueueNext ==
    \/ Tick(MaxTime)
    \/ \E text \in NonEmptyTyped : keyboard_input_thread(text)
    \/ silence_monitor_check
    \/ silence_monitor_pause
    \/ silence_monitor_sleep
    \/ result_put("hello")
    \/ stt_processor

QueueSpec == Init /\ [][QueueNext]_vars

(***************************************************************************)
(* ResumeSpec: the background listener runs or has failed to start; the    *)
(* user types a line, is silent until listening is paused, and speaks      *)
(* once; the active listening loop hears and recognizes the speech.        *)
(* Every thread is scheduled again and again (each loop sleeps a fraction  *)
(* of a second between iterations) and the recognition call returns.       *)
(* Threads: the background listener, active_listening_loop,                *)
(* stt_processor, silence_monitor, keyboard_input_thread.                  *)
(***************************************************************************)
active_listening_hears ==
    \/ active_listening_init(TRUE)
    \/ listens = 0 /\ active_listening_listen("heard")
    \/ active_listening_recognize("hello", SphinxFailed)
    \/ active_listening_check(TRUE)

ResumeNext ==
    \/ Tick(MaxTime)
    \/ background_listener_failed
    \/ \E energy \in Energies : audio_callback(energy, None, MaxSegments)
    \/ \E text \in NonEmptyTyped : keyboard_input_thread(text)
    \/ silence_monitor
    \/ active_listening_hears
    \/ stt_processor

ResumeSpec ==
    /\ Init
    /\ [][ResumeNext]_vars
    /\ WF_vars(silence_monitor)
    /\ WF_vars(stt_processor)
    /\ WF_vars(active_listening_hears)

(***************************************************************************)
(* ConsumerSpec: speech is captured while listening is active and the      *)
(* quick recognition of a speech segment has a best guess; both threads    *)
(* that read partial_result_queue run.                                     *)
(* Threads: the background listener with its quick recognition,            *)
(* partial_text_monitor, partial_result_processor.                         *)
(***************************************************************************)
ConsumerNext ==
    \/ Tick(MaxInputTime)
    \/ \E energy \in Energies, partial \in PartialTexts :
          audio_callback(energy, partial, MaxWorkerSegments)
    \/ partial_text_monitor
    \/ partial_result_processor

ConsumerSpec == Init /\ [][ConsumerNext]_vars

(***************************************************************************)
(* OrderSpec: two segments are captured one after the other, each is       *)
(* recognized at the first attempt as what was said in it, and             *)
(* stt_processor passes the results on.                                    *)
(* Threads: the background listener, the recognize_worker threads,         *)
(* stt_processor.                                                          *)
(***************************************************************************)
\* what recognize_google returns for a segment: the words said in it
spoken_text(segment) == IF segment = 1 THEN "hello" ELSE "world"

OrderNext ==
    \/ \E energy \in Energies :
          audio_callback(energy, None, MaxWorkerSegments)
    \/ \E w \in Workers : recognize_worker_test(w)
    \/ \E w \in Workers : recognize_worker_get(w)
    \/ \E w \in Workers, detected_code \in DetectOutcomes :
          recognize_worker_hint(w, spoken_text(w_audio[w]), detected_code)
    \/ \E w \in Workers :
          recognize_worker_rerecog(w, spoken_text(w_audio[w]))
    \/ stt_processor

OrderSpec == Init /\ [][OrderNext]_vars

(***************************************************************************)
(* HistorySpec: texts from the keyboard and from speech are answered by    *)
(* the main thread.  The clock stands still, no audio is captured.         *)
(* Threads: the recognition threads, stt_processor,                        *)
(* keyboard_input_thread, the main thread.                                 *)
(***************************************************************************)
HistoryNext ==
    \/ \E text \in FinalTexts : result_put(text)
    \/ stt_processor
    \/ \E text \in TypedTexts : keyboard_input_thread(text)
    \/ main_thread

HistorySpec == Init /\ [][HistoryNext]_vars

(***************************************************************************)
(* Properties                                                              *)
(***************************************************************************)

\* C1: is_listening changes from True to False only in a step where silence
\* detection is enabled, the silence_duration that silence_monitor read in
\* this iteration exceeds the silence-duration threshold, the silence_ratio it
\* read exceeds the ratio threshold (is_silent) and, at that moment,
\* is_speaking is False.
C1_PauseOnlyWhileSilentAndNotSpeaking ==
    [][(is_listening /\ ~is_listening') =>
         /\ silence_detection_enabled
         /\ speech_state.silence_duration > silence_threshold_local
         /\ speech_state.is_silent
         /\ ~is_speaking]_vars

\* C2: while silence detection has not been enabled and the warm-up period is
\* still running, is_listening is True, however high silence_ratio and
\* silence_duration are.
C2_NoPauseBeforeEnabled ==
    (~silence_detection_enabled /\ now - start_time < warm_up_period)
        => is_listening

\* silence_monitor has finished an iteration in the warm-up period, silence
\* detection still disabled, with a silent segment counted, the ratio above the
\* pause threshold and the silence longer than the pause threshold
C2_Witness ==
    /\ ~silence_detection_enabled
    /\ now - start_time < warm_up_period
    /\ pc_mon = "sleep"
    /\ silence_frames > 0
    /\ GetSpeechState.is_silent
    /\ GetSpeechState.silence_duration > silence_threshold_local
    /\ is_listening

\* C10: is_listening changes from False to True only in a silence_monitor step
\* where the silence_ratio the monitor read is below the resume threshold 0.7;
\* that threshold is strictly lower than the pause threshold 0.9, so the ratio
\* that resumes listening does not satisfy the pause condition.
C10_ResumeOnlyBelowHysteresis ==
    /\ resume_ratio_tenths < silence_threshold_tenths
    /\ [][(~is_listening /\ is_listening') =>
            /\ pc_mon = "resume"
            /\ BelowResume(speech_state.silence_ratio)
            /\ ~IsSilent(speech_state.silence_ratio)]_vars

\* listening is paused and silence_monitor, having read a ratio below 0.7, is
\* about to resume it
C10_Witness ==
    /\ pc_mon = "resume"
    /\ ~is_listening
    /\ BelowResume(speech_state.silence_ratio)
    /\ speech_frames > 0

\* C8: once the warm-up period has elapsed, silence_monitor enables silence
\* detection by the timer alone: an iteration of silence_monitor that starts
\* when warm_up_period seconds have passed since start_time leaves
\* silence_detection_enabled True.
C8_TimerEnablesDetection ==
    [][(pc_mon = "check" /\ pc_mon' # "check"
        /\ now - start_time >= warm_up_period)
          => silence_detection_enabled']_vars

\* C9: the first user input of any kind ends warm-up at once: the step in
\* which stt_processor puts a Final text on text_queue, the step in which
\* partial_text_monitor finishes displaying a partial, and the step in which
\* keyboard_input_thread accepts a non-empty line each leave
\* silence_detection_enabled True, whatever the elapsed warm-up time.
C9_FirstInputEndsWarmUp ==
    [][(\/ pc_stt = "put" /\ pc_stt' = "take"
        \/ pc_ptm = "show" /\ pc_ptm' = "take"
        \/ typed' # typed /\ text_queue' # text_queue)
          => silence_detection_enabled']_vars

\* silence detection is enabled one second into the warm-up period by the
\* first Final result alone: nothing typed, no segment captured
C9_Witness ==
    /\ silence_detection_enabled
    /\ Len(utterances) = 1
    /\ typed = 0
    /\ captured = 0
    /\ now > 0
    /\ start_time = now

\* C3: the utterance stream stt_processor feeds to the assistant never holds
\* two Final utterances with identical (text, timestamp, language).
C3_NoDuplicateFinal ==
    \A i, j \in 1..Len(utterances) :
        i # j => utterances[i] # utterances[j]

\* the texts that only a partial result can carry
PartialOnlyTexts == PartialTexts \ (FinalTexts \cup TypedTexts)

\* C4: partial results are never treated as confirmed utterances: no text
\* that only a partial carries is on text_queue, the spoken texts on text_queue
\* never outnumber the Final results taken from result_queue, and after the
\* Final "hello" alone has been processed text_queue holds exactly that one
\* text, whatever partials were displayed.
C4_PartialsNeverConfirmed ==
    /\ \A i \in 1..Len(text_queue) : text_queue[i] \notin PartialOnlyTexts
    /\ Len(SelectSeq(text_queue, LAMBDA t : t \in FinalTexts))
          <= delivered - Len(result_queue)
    /\ (delivered = 1 /\ typed = 0 /\ pc_stt = "take"
        /\ last_full_result = "hello") => text_queue = <<"hello">>

\* partial_text_monitor has taken and displayed the partial "he", stt_processor
\* has put the Final "hello", and that is the one text on text_queue
C4_Witness ==
    /\ ptm_text = "he"
    /\ pc_ptm = "take"
    /\ silence_detection_enabled
    /\ delivered = 1
    /\ typed = 0
    /\ text_queue = <<"hello">>

\* C7: for every text taken from text_queue, process_text_queue appends a
\* user entry holding that text and directly after it the assistant entry
\* holding the reply or fallback to it; entries before them keep their order,
\* and the history is the welcome entry followed by user/assistant pairs.
C7_UserTurnBeforeReply ==
    /\ [][(pc_ptq \in {"speak", "exit_speak"} /\ pc_ptq' = "idle") =>
            LET h == conversation_history'
                n == Len(h)
            IN  /\ n >= 2
                /\ h[n - 1].role = "user"
                /\ h[n - 1].text = ptq_text
                /\ h[n].role = "assistant"
                /\ h[n].text = ptq_response
                /\ ptq_response \in
                     (Replies \ {NoReply, Raised})
                       \cup {FallbackNoReply, FallbackRaised, ExitReply}
                /\ \A i \in 1..(n - 2) :
                     h[i] = conversation_history[
                              Len(conversation_history) - (n - 2) + i]]_vars
    /\ [](\A i \in 2..Len(conversation_history) :
            conversation_history[i].role =
              IF i % 2 = 0 THEN "user" ELSE "assistant")

\* a typed text and then a recognized text have both been answered, the
\* recognized one with the fallback for a raised exception
C7_Witness ==
    /\ Len(conversation_history) = 5
    /\ conversation_history[2].text = "hi"
    /\ conversation_history[4].text = "hello"
    /\ conversation_history[4].role = "user"
    /\ conversation_history[5].text = FallbackRaised
    /\ pc_ptq = "idle"

\* C5: when the attempt in the hinted language has failed as unrecognized and
\* the attempt in a fallback language L returns non-empty text, the result
\* recognize_worker puts on result_queue has lang equal to L.
C5_FallbackResultHasFallbackLang ==
    [][\A w \in Workers :
          (w_pc[w] = "fallback" /\ w_pc'[w] = "idle"
           /\ Len(result_queue') = Len(result_queue) + 1)
            => result_queue'[Len(result_queue')].lang = w_lang[w]]_vars

\* the capture errors in al_log[1..i] since the last capture that succeeded
\* and the last reset
CaptureRun(i) ==
    LET breaks == {j \in 1..i : al_log[j] \in {"heard", "reset"}}
        last == IF breaks = {} THEN 0
                ELSE CHOOSE j \in breaks : \A k \in breaks : k <= j
    IN  Cardinality({k \in (last + 1)..i : al_log[k] = "error"})

\* the request failures in al_log[1..i] since the last recognition call that
\* did not fail with a request error and the last reset
RequestRun(i) ==
    LET breaks == {j \in 1..i :
                     al_log[j] \in {"recognized", "unrecognized", "reset"}}
        last == IF breaks = {} THEN 0
                ELSE CHOOSE j \in breaks : \A k \in breaks : k <= j
    IN  Cardinality({k \in (last + 1)..i : al_log[k] = "request_error"})

C11_SegmentTakenOnce ==
    /\ \A i, j \in 1..Len(taken) :
          i # j => taken[i].segment # taken[j].segment
    /\ \A v, w \in Workers :
          (v # w /\ w_pc[v] \in {"hint", "rerecog", "fallback"}
                 /\ w_pc[w] \in {"hint", "rerecog", "fallback"})
            => w_audio[v] # w_audio[w]

\* two workers saw the same single segment on the queue; one of them took it
\* and the other waits in get(); then a second segment was taken by a third
C11_Witness ==
    /\ Len(taken) = 2
    /\ taken[1].worker # taken[2].worker
    /\ \E w \in Workers :
          /\ w_pc[w] = "get"
          /\ audio_queue = <<>>
          /\ \A i \in 1..Len(taken) : taken[i].worker # w
    /\ \E v, w \in Workers :
          v # w /\ w_pc[v] = "hint" /\ w_pc[w] = "fallback"

\* C12: Final utterances reach the assistant in capture order: the text of
\* the second segment is never on text_queue before the text of the first.
C12_CaptureOrder ==
    \A i, j \in 1..Len(text_queue) :
        (i < j) => ~(text_queue[i] = spoken_text(2)
                     /\ text_queue[j] = spoken_text(1))

\* C13: the background listener and the active listening loop never have the
\* same audio input device open at the same time.
C13_DeviceOpenedByOnePath ==
    ~(/\ background_source # NoDevice
      /\ active_source # NoDevice
      /\ background_source = active_source)

\* C14: after stop() has set the shutdown flags, every recognize_worker
\* observes the flag at its next loop iteration and terminates, under fair
\* scheduling and even when its queue is empty.
C14_WorkersTerminateAfterStop ==
    stop_thread ~> (\A w \in Workers : w_pc[w] = "done")

\* C15: shutdown drains in-flight work: when the workers have exited, no
\* segment is left on audio_queue that no worker attempted.
C15_ShutdownDrains ==
    (\A w \in Workers : w_pc[w] = "done") => audio_queue = <<>>

\* C16: is_listening is written only by silence_monitor: it changes only in
\* the step of silence_monitor that follows its "pausing" or "resuming"
\* print, and every step of every other thread leaves it as it was.
C16_OnlySilenceMonitorWritesListening ==
    [][(is_listening' # is_listening) =>
         (pc_mon \in {"pause", "resume"} /\ pc_mon' = "sleep")]_vars

\* silence_monitor has paused listening after a recognize_worker took the
\* captured segment, stt_processor passed its text on and the main thread
\* answered it
C16_Witness ==
    /\ ~is_listening
    /\ Len(taken) = 1
    /\ Len(utterances) = 1
    /\ Len(conversation_history) > 0
    /\ pc_ptq = "idle"

\* C17: the warm-up exit is a one-way latch: no step takes
\* silence_detection_enabled from True to False.
C17_WarmUpExitIsLatch ==
    [][silence_detection_enabled => silence_detection_enabled']_vars

\* silence detection was enabled, then two speech results and a typed line
\* each restarted the warm-up timer after the first second, a partial was
\* displayed, and silence_monitor has run an iteration inside the restarted
\* warm-up period
C17_Witness ==
    /\ silence_detection_enabled
    /\ Len(utterances) = 2
    /\ utterances[1].timestamp < utterances[2].timestamp
    /\ typed = 1
    /\ showing_partial
    /\ start_time > utterances[2].timestamp
    /\ now - start_time < warm_up_period
    /\ pc_mon = "sleep"

\* the typed lines that process_text_queue has answered
answered_typed ==
    {i \in 1..Len(conversation_history) :
        /\ conversation_history[i].role = "user"
        /\ conversation_history[i].text \in NonEmptyTyped}

\* C18: a non-empty typed line is put on text_queue by the step that reads
\* it, whether is_listening is True or False, and a typed line that waits on
\* text_queue is eventually answered by process_text_queue, also when
\* listening is paused while it waits.
C18_TypedLineProcessed ==
    /\ [][(typed' = typed + 1) =>
            (\E text \in NonEmptyTyped :
                text_queue' = Append(text_queue, text))]_vars
    /\ ((\E i \in 1..Len(text_queue) : text_queue[i] \in NonEmptyTyped)
          ~> (answered_typed # {}))
    /\ ((~is_listening
          /\ \E i \in 1..Len(text_queue) : text_queue[i] \in NonEmptyTyped)
          ~> (answered_typed # {}))

\* listening is paused, and the line that was typed before the pause has
\* been answered in the second of the pause
C18_Witness ==
    /\ ~is_listening
    /\ typed = 1
    /\ Len(conversation_history) = 3
    /\ conversation_history[2].text \in NonEmptyTyped
    /\ conversation_history[2].timestamp = MaxTime
    /\ start_time < MaxTime
    /\ pc_ptq = "idle"
    /\ text_queue = <<>>

\* C19: when generate_response returns None or raises, what process_text_queue
\* speaks is one of the two fixed fallback texts, never the failure itself;
\* the step that ends the fallback appends the user turn and then the
\* fallback turn to the history, clears is_speaking and returns to the test
\* of text_queue with the queued texts untouched.
C19_FallbackOnModelFailure ==
    /\ [](pc_ptq = "speak" => ptq_response \notin {NoReply, Raised})
    /\ [][(pc_ptq = "generate" /\ pc_ptq' = "speak"
              /\ ptq_response' \notin Replies)
            => ptq_response' \in {FallbackNoReply, FallbackRaised}]_vars
    /\ [][(pc_ptq = "speak" /\ pc_ptq' # "speak"
              /\ ptq_response \in {FallbackNoReply, FallbackRaised})
            => LET h == conversation_history'
                   n == Len(h)
               IN  /\ n = Len(conversation_history) + 2
                   /\ h[n - 1] = [role |-> "user", text |-> ptq_text,
                                  timestamp |-> now]
                   /\ h[n] = [role |-> "assistant", text |-> ptq_response,
                              timestamp |-> now]
                   /\ ~is_speaking'
                   /\ pc_ptq' = "idle"
                   /\ text_queue' = text_queue]_vars

\* generate_response returned None for the typed text, the fallback was
\* spoken and recorded, and the next text has been answered with a reply
C19_Witness ==
    /\ Len(conversation_history) = 5
    /\ conversation_history[2] =
         [role |-> "user", text |-> "hi", timestamp |-> now]
    /\ conversation_history[3].text = FallbackNoReply
    /\ conversation_history[4].role = "user"
    /\ conversation_history[5].text \in Replies \ {NoReply, Raised}
    /\ pc_ptq = "idle"
    /\ ~is_speaking

\* nothing is in flight: every captured segment has been taken and its
\* worker is back at the test of audio_queue, every result has been passed
\* on and every text has been answered
all_handled ==
    /\ audio_queue = <<>>
    /\ \A w \in Workers : w_pc[w] = "idle"
    /\ result_queue = <<>>
    /\ pc_stt = "take"
    /\ text_queue = <<>>
    /\ pc_ptq = "idle"

\* the utterances of the assistant after the welcome message
responses ==
    {i \in 2..Len(conversation_history) :
        conversation_history[i].role = "assistant"}

\* C20: a captured segment that cannot be transcribed, neither in the hinted
\* language nor in a fallback language, is answered with an utterance of the
\* assistant: once nothing is in flight, the assistant has spoken at least
\* one response or apology for every segment a worker took.
C20_FailedSegmentGetsApology ==
    all_handled => Cardinality(responses) >= Len(taken)

\* C21: no failure of a recognition attempt stops a recognize_worker: the
\* step in which the hinted attempt, the attempt with the detected language
\* or a fallback attempt ends leaves the worker inside its loop, at the test
\* of audio_queue or at a further attempt for the same segment.
C21_AttemptFailureKeepsWorker ==
    [][\A w \in Workers :
          w_pc[w] \in {"hint", "rerecog", "fallback"}
            => w_pc'[w] \in {"idle", "hint", "rerecog", "fallback"}]_vars

\* C22: current_mode follows the recognized intents: when process_text_queue
\* takes a text that matches the document pattern the mode becomes
\* "document", for the image pattern "image", for the exit pattern
\* "general"; any other text leaves the mode as it is.
C22_ModeFollowsIntent ==
    [][(pc_ptq = "idle" /\ pc_ptq' # "idle") =>
          LET command == check_for_commands(Head(text_queue))
          IN  current_mode' =
                IF command = "document_mode" THEN "document"
                ELSE IF command = "image_mode" THEN "image"
                ELSE IF command = "exit_mode" THEN "general"
                ELSE current_mode]_vars

\* the calls of generate_and_play_speech that were not skipped
accepted_calls == {i \in 1..Len(tts_log) : tts_log[i].synthesized}

\* C23: a call of generate_and_play_speech is skipped exactly when its text
\* equals the text of the last accepted call and less than
\* duplicate_threshold has passed since that call; a different text, the
\* same text after the cooldown, and the first text are synthesized.
C23_DuplicateWithinCooldownSkipped ==
    [][(Len(tts_log') = Len(tts_log) + 1) =>
          LET call == tts_log'[Len(tts_log')]
          IN  IF accepted_calls = {}
              THEN call.synthesized
              ELSE LET last == tts_log[CHOOSE i \in accepted_calls :
                                         \A j \in accepted_calls : j <= i]
                   IN  call.synthesized =
                         ~(/\ call.text = last.text
                           /\ call.time - last.time < duplicate_threshold)
       ]_vars

\* a text is synthesized, skipped one second later, and synthesized again
\* two seconds after it was accepted
C23_Witness ==
    /\ Len(tts_log) = 3
    /\ \A i \in 1..3 : tts_log[i].text = "reply"
    /\ tts_log[1].synthesized /\ tts_log[1].time = 0
    /\ ~tts_log[2].synthesized /\ tts_log[2].time = 1
    /\ tts_log[3].synthesized /\ tts_log[3].time = 2

\* C24: after every add_to_conversation_history call (a step of TrimSpec,
\* in which the clock moves on) the history holds at most
\* 2 * max_history_items entries: the entry just appended is the last one,
\* and before it come the most recent earlier entries in their order.
C24_HistoryKeepsMostRecent ==
    [][(now' # now) =>
          LET old == conversation_history
              new == conversation_history'
              kept == Len(new) - 1
          IN  /\ Len(new) <= 2 * max_history_items
              /\ Len(new) >= 1
              /\ new[Len(new)].timestamp = now
              /\ kept <= Len(old)
              /\ kept = Len(old) \/ Len(new) = 2 * max_history_items
              /\ \A i \in 1..kept : new[i] = old[Len(old) - kept + i]
       ]_vars

\* the history is full, and its oldest entries, the welcome message among
\* them, have been dropped
C24_Witness ==
    /\ Len(conversation_history) = 2 * max_history_items
    /\ conversation_history[1].timestamp = 2
    /\ conversation_history[2 * max_history_items].timestamp = 21

\* the places in conversation_history of the entries inside the context
\* window
in_window ==
    {i \in 1..Len(conversation_history) :
        now - conversation_history[i].timestamp <= context_window_minutes * 60}

\* C25: the context process_text_queue passes to generate_response holds,
\* in history order, exactly the entries of conversation_history that are at
\* most context_window_minutes old, each as its role and its text.
C25_ContextIsRecentHistory ==
    [][(pc_ptq = "idle" /\ pc_ptq' = "generate") =>
          /\ Len(context') = Cardinality(in_window)
          /\ \A k \in 1..Len(context') :
                LET i == CHOOSE i \in in_window :
                            Cardinality({j \in in_window : j <= i}) = k
                IN  context'[k] = [role |-> conversation_history[i].role,
                                   content |-> conversation_history[i].text]
       ]_vars

\* generate_response runs for a typed text with the exchange of exactly 15
\* minutes ago as its context; the welcome message, older than that, is
\* left out
C25_Witness ==
    /\ pc_ptq = "generate"
    /\ ptq_text = "hi"
    /\ Len(conversation_history) = 3
    /\ now - conversation_history[1].timestamp > context_window_minutes * 60
    /\ now - conversation_history[2].timestamp = context_window_minutes * 60
    /\ context = <<[role |-> "user", content |-> "hello"],
                   [role |-> "assistant", content |-> "reply"]>>

\* C26: listening is never paused during playback: no step sets is_listening
\* to False while a generate_speech call of the assistant is in flight, be it
\* for the welcome message, a reply or fallback, or the exit-mode
\* confirmation.
C26_NoPauseDuringPlayback ==
    [][(is_listening /\ ~is_listening')
         => pc_ptq \notin {"welcome", "speak", "exit_speak"}]_vars

\* C27: when the attempt in the hinted language gives no text (it returns an
\* empty text or fails as unrecognized), recognize_worker goes on to the
\* first supported language that is not the hint it tried; a fallback
\* attempt that gives no text is followed by a later language of
\* supported_languages, and the segment is given up without a result only
\* when no language other than the hint is left.
C27_FallbackTriesOtherLanguages ==
    [][\A w \in Workers :
          /\ (w_pc[w] = "hint" /\ w_pc'[w] \notin {"hint", "rerecog"}
                /\ result_queue' = result_queue)
               => /\ w_pc'[w] = "fallback"
                  /\ w_index'[w] = next_fallback(1, w_lang[w])
                  /\ w_lang'[w] = Langs[w_index'[w]]
          /\ (w_pc[w] = "fallback" /\ w_pc'[w] = "fallback"
                /\ w_index'[w] # w_index[w])
               => /\ result_queue' = result_queue
                  /\ w_index'[w] > w_index[w]
                  /\ w_lang'[w] = Langs[w_index'[w]]
          /\ (w_pc[w] = "fallback" /\ w_pc'[w] = "idle"
                /\ result_queue' = result_queue)
               => \A i \in (w_index[w] + 1)..Len(Langs) :
                     Langs[i] = last_detected_language]_vars

\* C28: after a non-empty transcription the language detected from the
\* returned text is the language hint: in the step in which a
\* recognize_worker puts its result on result_queue, last_detected_language
\* becomes (or stays) the language detected from the text.
C28_DetectedLanguageBecomesHint ==
    [][\A w \in Workers :
          (w_pc[w] \in {"hint", "rerecog", "fallback"} /\ w_pc'[w] = "idle"
           /\ Len(result_queue') = Len(result_queue) + 1)
            => last_detected_language' = w_detected'[w]]_vars

\* C29: the energy threshold that classifies frames never exceeds the fixed
\* ceiling: every process_audio call reads a recognizer.energy_threshold of
\* at most 300, also while the adjustment thread is still running.
C29_ThresholdAtMostCeiling ==
    [][(captured' = captured + 1)
         => energy_threshold <= fixed_energy_threshold]_vars


\* C30: after every process_audio call the silent and the speech frames add
\* up to total_frames, total_frames is at most 100, and silence_ratio is a
\* fraction between 0 and 1: the silent frames counted since the last window
\* reset (this one included) over all frames counted since that reset.
C30_WindowCounters ==
    [][(captured' = captured + 1)
         => LET silent == IF Len(partial_result_queue')
                               = Len(partial_result_queue) THEN 1 ELSE 0
                counted == ((captured' - 1) % (window_frames + 1)) + 1
            IN  /\ silence_frames' + speech_frames' = total_frames'
                /\ total_frames' <= window_frames
                /\ 0 <= silence_ratio'[1]
                /\ silence_ratio'[1] <= silence_ratio'[2]
                /\ silence_ratio'[2] = counted
                /\ silence_ratio'[1] = silence_frames + silent]_vars

\* a second window has begun: the frame after the reset is the only one
\* counted
C30_Witness ==
    /\ captured = window_frames + 2
    /\ total_frames = 1
    /\ silence_ratio = <<1, 1>>
    /\ Len(partial_result_queue) = window_frames + 1

\* C31: partial_text_monitor prints a partial text only if it differs from
\* the line printed last for the span, partial or final.
C31_PartialDiffersFromLastShown ==
    [][(pc_ptm = "take" /\ pc_ptm' = "show")
         => ptm_text' # last_shown.text]_vars

\* C32: find_best_microphone returns None exactly when the list of devices
\* is empty or listing them fails; otherwise it returns an index into the
\* list, and the device at that index has a name that marks it as an output
\* only if no listed device matches a priority keyword and every listed
\* device is an output.
C32_OutputDeviceOnlyAsLastResort ==
    mic_listing # Unlisted
      => /\ (best_mic_index = NoDevice)
              <=> (mic_names = <<>> \/ mic_listing = "error")
         /\ best_mic_index # NoDevice
              => /\ best_mic_index \in 0..(Len(mic_names) - 1)
                 /\ ~not_output(mic_names[best_mic_index + 1])
                      => /\ keyword_hits(mic_names) = {}
                         /\ input_hits(mic_names) = {}

\* C33: with the default configuration silence_monitor pauses listening
\* only when silence_duration is above the silence_threshold passed to
\* VoiceAssistant, ASSISTANT_SETTINGS silence_threshold_seconds (5.0): no
\* pause is decided while silence_duration is 5.0 s or less.
C33_PauseOnlyAboveConfiguredThreshold ==
    [][(pc_mon = "check" /\ pc_mon' = "pause")
         => now - last_speech_time > silence_threshold_seconds]_vars

\* C34: the queues are bounded, also while listening is paused and results
\* keep arriving: result_queue then stays below a fixed length, so the
\* results delivered in a run are never all waiting in it at once.
C34_ResultQueueBoundedWhilePaused ==
    ~is_listening => Len(result_queue) < MaxResults

\* C35: once listening is paused, speech that a capture path has captured
\* and recognized makes is_listening True again, also when the background
\* listener failed to start and only the active listening loop runs.
C35_RecognizedSpeechResumes ==
    (~background_listening /\ ~is_listening /\ result_queue # <<>>)
      ~> is_listening

\* C36: the lang field of a result that a recognize_worker puts on
\* result_queue is the language of the attempt that produced its text: for
\* a text returned by the first call, the hint that call was made with,
\* whatever the other workers do in between.
C36_LangIsLanguageOfAttempt ==
    [][\A w \in Workers :
          (w_pc[w] = "hint" /\ w_pc'[w] = "idle"
           /\ Len(result_queue') = Len(result_queue) + 1)
            => result_queue'[Len(result_queue')].lang = w_lang[w]]_vars

\* C37: stt_processor puts a recognized text on text_queue only in a state
\* where is_listening is True, however its steps interleave with those of
\* silence_monitor.
C37_NoDeliveryWhilePaused ==
    [][(pc_stt = "put" /\ pc_stt' = "take") => is_listening]_vars

\* C38: every partial result put on partial_result_queue while listening
\* is active is taken off it by partial_text_monitor: no step of another
\* thread makes the queue shorter.
C38_OnlyMonitorTakesPartials ==
    [][Len(partial_result_queue') < Len(partial_result_queue)
         => partial_text_monitor_take]_vars

\* C39: is_speaking is True only while process_text_queue is handling one
\* general-conversation text, and it is False when the next text is taken
\* from text_queue, whether generate_response gave a reply, gave nothing
\* or raised.
C39_SpeakingOnlyWhileHandling ==
    [][/\ is_speaking'
          => /\ pc_ptq' \in {"generate", "speak"}
             /\ check_for_commands(ptq_text') # "exit_mode"
       /\ (pc_ptq = "idle" /\ pc_ptq' # "idle") => ~is_speaking]_vars

\* generate_response raised for the first text, the fallback was spoken and
\* recorded, and the next text is being handled
C39_Witness ==
    /\ is_speaking
    /\ pc_ptq = "generate"
    /\ Len(conversation_history) = 3
    /\ conversation_history[3].text = FallbackRaised

\* the texts of the user in the history, in order
user_texts(history) ==
    LET entries == SelectSeq(history, LAMBDA item : item.role = "user")
    IN  [i \in 1..Len(entries) |-> entries[i].text]

\* every text put on text_queue so far: recorded, held by
\* process_text_queue, or waiting
texts_in_order(history, held, queue) ==
    user_texts(history) \o (IF held = None THEN <<>> ELSE <<held>>) \o queue

\* C40: process_text_queue handles the queued texts one at a time in the
\* order of text_queue: a text is taken only when the exchange before it
\* has been spoken and recorded, an exchange is recorded as the text and
\* then its reply, and the texts keep the order in which they were put on
\* the queue all the way into conversation_history.
C40_TextsHandledInQueueOrder ==
    [][/\ Len(text_queue') < Len(text_queue)
          => pc_ptq = "idle" /\ ptq_text = None
       /\ conversation_history' # conversation_history
          => conversation_history' =
               conversation_history
                 \o <<[role |-> "user", text |-> ptq_text, timestamp |-> now],
                      [role |-> "assistant", text |-> ptq_response,
                       timestamp |-> now]>>
       /\ LET before == texts_in_order(conversation_history, ptq_text,
                                       text_queue)
              after == texts_in_order(conversation_history', ptq_text',
                                      text_queue')
          IN  \/ after = before
              \/ /\ Len(after) = Len(before) + 1
                 /\ SubSeq(after, 1, Len(before)) = before]_vars

\* two texts were waiting together; the first has been answered and
\* recorded, the second is being answered, a third waits
C40_Witness ==
    /\ Len(conversation_history) = 3
    /\ conversation_history[2].text = "hello"
    /\ conversation_history[3].role = "assistant"
    /\ ptq_text = "hi"
    /\ pc_ptq = "speak"
    /\ text_queue = <<"hello">>

=============================================================================
